---- MODULE Spec2Model ----
(***************************************************************************)
(* Gait engines of the hexapod controller (HEX_Controll/Core/Src):         *)
(* wave_gait.c, bipedal_gait.c, tripod_gait.c and the reachability test of *)
(* hexapod_kinematics.c.                                                   *)
(*                                                                         *)
(* Numbers.  The C code computes in float.  Lengths are modelled in fixed  *)
(* point, UnitsPerCm units per centimetre; interpolation parameters are    *)
(* fractions of TScale.  Every quotient is rounded down.  The step lengths *)
(* the model draws are whole centimetres, so step_length / 6 and           *)
(* step_length / 3 are exact.  The loop parameter t = i / points is kept   *)
(* as the exact rational tn / td.                                          *)
(***************************************************************************)
EXTENDS Integers, Sequences, FiniteSets

VARIABLES
    engine,                       \* gait the main loop calls (main.c 313-315)
    wave_config,                  \* wave_gait.c   wave_config
    wave_leg_current_y,           \* wave_gait.c   leg_current_y
    wave_positions_initialized,   \* wave_gait.c   positions_initialized
    bipedal_config,               \* bipedal_gait.c bipedal_config
    bipedal_leg_current_y,        \* bipedal_gait.c leg_current_y
    bipedal_positions_initialized,\* bipedal_gait.c positions_initialized
    tripod_config,                \* tripod_gait.c tripod_config
    pc,                           \* position of the control loop
    stance_start_y,               \* local array of executeStanceShift
    sample,                       \* IK calls of the last loop iteration, in order
    ret,                          \* return value of the last cycle call
    cycles,                       \* cycle calls made so far
    cycle_start_y,                \* history: tracked offsets when the cycle began its steps
    phase_log,                    \* history: phases entered in the current cycle
    phase_first,                  \* history: sample of iteration 0 of the current phase
    shift_count,                  \* history: stance shifts persisted per leg this cycle
    shift_total,                  \* history: sum of persisted stance displacements per leg
    walk,                         \* the ...GaitWalk call in progress: its arguments and loop counter
    ik_failed,                    \* history: some computeLegIK call of the current cycle returned false
    sample_count,                 \* history: loop iterations executed in the current cycle
    kin,                          \* a direct call of a kinematics function: arguments, outputs, reads
    boot,                         \* main.c: position of main(), the ready flags of pca1 and pca2
    cycle_steps,                  \* history: step_length of the previous and of the current wave or bipedal cycle
    timer                         \* tripod_gait.c: HAL_GetTick(), next_time and the busy-wait of a phase

vars == <<engine, wave_config, wave_leg_current_y, wave_positions_initialized,
          bipedal_config, bipedal_leg_current_y, bipedal_positions_initialized,
          tripod_config, pc, stance_start_y, sample, ret, cycles,
          cycle_start_y, phase_log, phase_first, shift_count, shift_total,
          walk, ik_failed, sample_count, kin, boot, timer, cycle_steps>>

(***************************************************************************)
(* Resolution of the fixed-point model and bounds of the exploration.      *)
(***************************************************************************)
UnitsPerCm == 6 * 100
TScale == 10 * 100
cm(n) == n * UnitsPerCm

MaxCycles == 2

\* ticks of one phase the model follows a busy-wait for
MaxWaitTicks == 45

Legs == 1..6
LegOrder == <<1, 2, 3, 4, 5, 6>>

\* values the callers pass to the set...Config functions
StepLengths == {cm(6), cm(18)}
LiftHeights == {cm(8)}
PointCounts == {1, 4}
Durations == {20}
NumCycles == -1..MaxCycles

WaveDirections == {"WAVE_FORWARD", "WAVE_BACKWARD", "WAVE_LEFT", "WAVE_RIGHT"}
BipedalDirections == {"BIPEDAL_FORWARD", "BIPEDAL_BACKWARD", "BIPEDAL_LEFT", "BIPEDAL_RIGHT"}
TripodDirections == {"TRIPOD_FORWARD", "TRIPOD_BACKWARD", "TRIPOD_LEFT", "TRIPOD_RIGHT",
                     "TRIPOD_TURN_LEFT", "TRIPOD_TURN_RIGHT"}

(***************************************************************************)
(* hexapod_kinematics: segment lengths, leg origins, reachability.         *)
(***************************************************************************)
L1 == 3480
L2 == 6300
L3 == 12300

leg_origins ==
    << [x |->  4137, y |-> -4628, invert_hip |-> FALSE, invert_knee |-> FALSE],
       [x |-> -5196, y |-> -4628, invert_hip |-> TRUE,  invert_knee |-> TRUE],
       [x |->  6070, y |->    39, invert_hip |-> FALSE, invert_knee |-> FALSE],
       [x |-> -7130, y |->   -39, invert_hip |-> TRUE,  invert_knee |-> TRUE],
       [x |->  4137, y |->  4706, invert_hip |-> FALSE, invert_knee |-> FALSE],
       [x |-> -5196, y |->  4706, invert_hip |-> TRUE,  invert_knee |-> TRUE] >>

RECURSIVE SqrtSearch(_, _, _)
SqrtSearch(n, lo, hi) ==
    IF lo >= hi THEN lo
    ELSE LET mid == (lo + hi + 1) \div 2
         IN  IF mid * mid <= n THEN SqrtSearch(n, mid, hi)
             ELSE SqrtSearch(n, lo, mid - 1)

\* floor of the square root
sqrtf(n) == SqrtSearch(n, 0, 46340)

\* variant: both bounds exclusive
InReach_exclusive(D2) == ~(D2 >= (L2 + L3) * (L2 + L3) \/ D2 <= (L2 - L3) * (L2 - L3))

\* |L2 - L3| <= D <= L2 + L3, compared on the squares
InReach(D2) == ~(D2 > (L2 + L3) * (L2 + L3) \/ D2 < (L2 - L3) * (L2 - L3))

\* the Boolean result of computeLegIK
computeLegIK(leg_number, x, y, z) ==
    IF leg_number < 1 \/ leg_number > 6 THEN FALSE
    ELSE LET leg == leg_origins[leg_number]
             local_x == x - leg.x
             local_y == y - leg.y
             r == sqrtf(local_x * local_x + local_y * local_y) - L1
             h == -z
             D2 == r * r + h * h
         IN  InReach(D2)

(***************************************************************************)
(* Angles.  An angle is an integer number of tenths of a degree; M_PI is   *)
(* the half turn.  atanf on [0, 1] is the quadratic approximation          *)
(* z * (45 + 15.6 * (1 - z)) degrees, whose error is below 0.25 degree;    *)
(* atan2f and acosf are built from it the usual way.                       *)
(***************************************************************************)
M_PI == 1800
CosScale == 100 * 100

Abs(n) == IF n < 0 THEN -n ELSE n

\* atan(n / d) for 0 <= n <= d, 0 < d
atanUnit(n, d) ==
    LET zq == (n * 1000) \div d
    IN  (450000 * zq + 156 * zq * (1000 - zq)) \div 1000000

atan2f(y, x) ==
    IF x = 0 /\ y = 0 THEN 0
    ELSE LET ax == Abs(x)
             ay == Abs(y)
             a == IF ay <= ax THEN atanUnit(ay, ax)
                  ELSE (M_PI \div 2) - atanUnit(ax, ay)
         IN  IF x >= 0 THEN (IF y >= 0 THEN a ELSE -a)
             ELSE (IF y >= 0 THEN M_PI - a ELSE a - M_PI)

\* the float NaN: a value no angle takes
NaN == 10 * M_PI

isnan(a) == a = NaN

\* acos of c / CosScale; outside [-1, 1] acosf returns NaN
acosf(c) ==
    IF c > CosScale \/ c < -CosScale THEN NaN
    ELSE atan2f(sqrtf(CosScale * CosScale - c * c), c)

\* n / d as a fraction of CosScale, for d > 0.  Rounding to the resolution
\* of CosScale never moves a quotient across 1 or -1: a quotient above 1
\* stays above CosScale, one within [-1, 1] stays within.
Ratio(n, d) ==
    LET qt == n \div (d \div CosScale)
    IN  IF n > d THEN (IF qt > CosScale THEN qt ELSE CosScale + 1)
        ELSE IF n < -d THEN (IF qt < -CosScale THEN qt ELSE -CosScale - 1)
        ELSE IF qt > CosScale THEN CosScale
        ELSE IF qt < -CosScale THEN -CosScale
        ELSE qt

fmaxf(a, b) == IF a > b THEN a ELSE b
fminf(a, b) == IF a < b THEN a ELSE b

\* the float outputs a caller passes: the values *q1, *q2, *q3 hold before the call
QBefore == {<<0, 0, 0>>, <<100, -200, 300>>}

\* the ankle angle q3 of computeLegIK: "if (leg->invert_knee) *q3 = gamma -
\* M_PI; else *q3 = -(M_PI - gamma);"
AnkleAngle(invert_knee, gamma) ==
    IF invert_knee THEN gamma - M_PI ELSE -(M_PI - gamma)

\* One call computeLegIK(leg_number, x, y, z, q1, q2, q3).  q holds the
\* outputs before the call, q_ok says that none of the three pointers is
\* NULL.  The result gives the return value, the outputs after the call,
\* the indexes of leg_origins that were read and the arguments acosf was
\* called with (gamma's, then beta's).
computeLegIKCall(leg_number, x, y, z, q, q_ok) ==
    IF leg_number < 1 \/ leg_number > 6 \/ ~q_ok
    THEN [ret |-> FALSE, q |-> q, reads |-> << >>, acos_args |-> << >>]
    ELSE LET leg == leg_origins[leg_number]
             local_x == x - leg.x
             local_y == y - leg.y
             a1 == atan2f(local_y, local_x)
             q1 == IF leg.invert_hip
                   THEN (IF a1 > 0 THEN a1 - M_PI ELSE a1 + M_PI)
                   ELSE a1
             r == sqrtf(local_x * local_x + local_y * local_y) - L1
             h == -z
             D2 == r * r + h * h
             D == sqrtf(D2)
             cos_gamma == fmaxf(-CosScale,
                                fminf(CosScale, Ratio(D2 - L2 * L2 - L3 * L3, 2 * L2 * L3)))
             gamma == acosf(cos_gamma)
             alpha == atan2f(h, r)
             cos_beta == Ratio(D2 + L2 * L2 - L3 * L3, 2 * L2 * D)
             beta == acosf(cos_beta)
             q2 == IF isnan(beta) THEN NaN ELSE -(alpha - beta)
             q3 == AnkleAngle(leg.invert_knee, gamma)
         IN  IF ~InReach(D2)
             THEN [ret |-> FALSE, q |-> <<q1, q[2], q[3]>>, reads |-> <<leg_number>>,
                   acos_args |-> << >>]
             ELSE [ret |-> TRUE, q |-> <<q1, q2, q3>>, reads |-> <<leg_number>>,
                   acos_args |-> <<cos_gamma, cos_beta>>]

(***************************************************************************)
(* Interpolation utilities (identical copies in the three gait files).     *)
(***************************************************************************)
\* variant: t * (3 - 2t), one factor t short
cubicInterpolation_overshoot(tn, td) ==
    IF tn <= 0 THEN 0
    ELSE IF tn >= td THEN TScale
    ELSE (tn * (3 * td - 2 * tn) * TScale) \div (td * td)

\* t = tn / td; the result is a fraction of TScale
cubicInterpolation(tn, td) ==
    IF tn <= 0 THEN 0
    ELSE IF tn >= td THEN TScale
    ELSE (tn * tn * (3 * td - 2 * tn) * TScale) \div (td * td * td)

lerp(start, end, t) == start + ((end - start) * t) \div TScale

\* variant: the lift grows linearly and is not taken back at t = 1
arc_height_rising(lift_height, tn, td) == (lift_height * tn) \div td

\* 4 * lift_height * t * (1 - t)
arc_height(lift_height, tn, td) == (4 * lift_height * tn * (td - tn)) \div (td * td)

(***************************************************************************)
(* Tables shared by the gait files.                                        *)
(***************************************************************************)
base_positions ==
    << <<cm(18),  -cm(15), -cm(24)>>,
       <<-cm(18), -cm(15), -cm(24)>>,
       <<cm(22),   cm(0),  -cm(24)>>,
       <<-cm(22),  cm(0),  -cm(24)>>,
       <<cm(18),   cm(15), -cm(24)>>,
       <<-cm(18),  cm(15), -cm(24)>> >>

BaseY == [l \in Legs |-> base_positions[l][2]]

\* variant: the hip offsets of the rear legs exchanged
leg_mapping_rearSwapped ==
    << [base_channel |-> 0, hip_offset_deg |->  375, is_left_side |-> TRUE],
       [base_channel |-> 0, hip_offset_deg |-> -375, is_left_side |-> FALSE],
       [base_channel |-> 3, hip_offset_deg |->    0, is_left_side |-> TRUE],
       [base_channel |-> 3, hip_offset_deg |->    0, is_left_side |-> FALSE],
       [base_channel |-> 6, hip_offset_deg |->  375, is_left_side |-> TRUE],
       [base_channel |-> 6, hip_offset_deg |-> -375, is_left_side |-> FALSE] >>

leg_mapping ==
    << [base_channel |-> 0, hip_offset_deg |->  375, is_left_side |-> TRUE],
       [base_channel |-> 0, hip_offset_deg |-> -375, is_left_side |-> FALSE],
       [base_channel |-> 3, hip_offset_deg |->    0, is_left_side |-> TRUE],
       [base_channel |-> 3, hip_offset_deg |->    0, is_left_side |-> FALSE],
       [base_channel |-> 6, hip_offset_deg |-> -375, is_left_side |-> TRUE],
       [base_channel |-> 6, hip_offset_deg |->  375, is_left_side |-> FALSE] >>

(***************************************************************************)
(* Servo commands.  A servo angle is a number of tenths of a degree, like  *)
(* a joint angle.  Float arithmetic with a NaN operand gives NaN, and a    *)
(* comparison with a NaN operand is false.                                 *)
(***************************************************************************)
Deg(n) == n * 10

AddAngle(a, b) == IF isnan(a) \/ isnan(b) THEN NaN ELSE a + b
NegAngle(a) == IF isnan(a) THEN NaN ELSE -a

\* q * 180.0f / M_PI
RadToDeg(q) == IF isnan(q) THEN NaN ELSE (q * Deg(180)) \div M_PI

\* variant: the limits without the upper one
ServoLimit_lowerOnly(a) == IF isnan(a) THEN a ELSE IF a < 0 THEN 0 ELSE a

\* "if (a < 0.0f) a = 0.0f; if (a > 180.0f) a = 180.0f;"
ServoLimit(a) ==
    IF isnan(a) THEN a
    ELSE IF a < 0 THEN 0
    ELSE IF a > Deg(180) THEN Deg(180)
    ELSE a

SERVO_PWM_MIN == 110
SERVO_PWM_MAX == 500

\* the value of (uint16_t)f for a float f that is NaN: the conversion is
\* undefined, it yields some 16-bit value
NaNToUint16 == {0, 65535}

\* One call PCA9685_SetServoAngle(handle, channel, angle); ready says that
\* handle is not NULL and handle->ready is set, conv is what the conversion
\* to uint16_t yields should its operand be NaN.  The result gives the
\* return value and, if PCA9685_SetPWM was reached, the count it writes.
PCA9685_SetServoAngle(ready, channel, angle, conv) ==
    IF ~ready \/ channel > 15
    THEN [ret |-> FALSE, written |-> FALSE, pwm |-> 0]
    ELSE LET a == ServoLimit(angle)
             pwm_range == SERVO_PWM_MAX - SERVO_PWM_MIN
             scaled == IF isnan(a) THEN conv ELSE (a * pwm_range) \div Deg(180)
             pwm_value == (SERVO_PWM_MIN + scaled) % 65536
         IN  [ret |-> TRUE, written |-> TRUE,
              pwm |-> IF pwm_value > 4095 THEN 4095 ELSE pwm_value]

\* the three servo angles an adapter computes from the joint angles q:
\* conversion to degrees, hip offset, mirrored knee and ankle if mirror,
\* 90 degrees added, limits
ServoAngles(q, hip_offset_deg, mirror) ==
    LET hip_deg == AddAngle(RadToDeg(q[1]), hip_offset_deg)
        knee_deg == IF mirror THEN NegAngle(RadToDeg(q[2])) ELSE RadToDeg(q[2])
        ankle_deg == IF mirror THEN NegAngle(RadToDeg(q[3])) ELSE RadToDeg(q[3])
    IN  << ServoLimit(AddAngle(Deg(90), hip_deg)),
           ServoLimit(AddAngle(Deg(90), knee_deg)),
           ServoLimit(AddAngle(Deg(90), ankle_deg)) >>

\* the calls PCA9685_SetServoAngle(pca, base_channel + k, angle) an adapter
\* makes, in order
ServoCommands(pca, base_channel, angles) ==
    [k \in 1..3 |-> [pca |-> pca, channel |-> base_channel + k - 1, angle |-> angles[k]]]

\* setLegJointsWithOffset of wave_gait.c: the commands it issues
WaveSetLegJointsWithOffset(leg_number, q, pca1, pca2) ==
    IF leg_number < 1 \/ leg_number > 6 THEN << >>
    ELSE LET mapping == leg_mapping[leg_number]
             pca_to_use == IF mapping.is_left_side THEN "pca1" ELSE "pca2"
             null == IF mapping.is_left_side THEN ~pca1 ELSE ~pca2
         IN  IF null THEN << >>
             ELSE ServoCommands(pca_to_use, mapping.base_channel,
                                ServoAngles(q, mapping.hip_offset_deg,
                                            ~mapping.is_left_side))

\* setLegJointsWithOffset of bipedal_gait.c: the commands it issues
BipedalSetLegJointsWithOffset(leg_number, q, pca1, pca2) ==
    IF leg_number < 1 \/ leg_number > 6 THEN << >>
    ELSE LET mapping == leg_mapping[leg_number]
             pca_to_use == IF mapping.is_left_side THEN "pca1" ELSE "pca2"
             null == IF mapping.is_left_side THEN ~pca1 ELSE ~pca2
         IN  IF null THEN << >>
             ELSE ServoCommands(pca_to_use, mapping.base_channel,
                                ServoAngles(q, mapping.hip_offset_deg, FALSE))

\* setLegJoints of test_positions.c, which the tripod gait calls with its
\* first handle: the commands it issues
setLegJointsCommands(leg_number, q) ==
    IF leg_number \notin {1, 3, 5} THEN << >>
    ELSE ServoCommands("pca1", IF leg_number = 1 THEN 0 ELSE IF leg_number = 3 THEN 3 ELSE 6,
                       ServoAngles(q, 0, FALSE))

\* the commands behind a sample event e of the gait in progress: the adapter
\* of the gait is called with the angles computeLegIK returned for the
\* event's target
GaitCommands(e) ==
    LET q == computeLegIKCall(e.leg, e.x, e.y, e.z, <<0, 0, 0>>, TRUE).q
    IN  IF ~e.sent THEN << >>
        ELSE IF engine = "wave" THEN WaveSetLegJointsWithOffset(e.leg, q, pc.pca1, pc.pca2)
        ELSE IF engine = "bipedal"
             THEN BipedalSetLegJointsWithOffset(e.leg, q, pc.pca1, pc.pca2)
        ELSE setLegJointsCommands(e.leg, q)

\* variant: every leg is written through the left handle
setLegJointsWithOffset_leftOnly(leg_number, pca1, pca2) ==
    IF leg_number < 1 \/ leg_number > 6 THEN FALSE ELSE pca1

\* setLegJointsWithOffset issues the three servo writes iff the leg id is
\* valid and the handle of the leg's side is not NULL
setLegJointsWithOffset(leg_number, pca1, pca2) ==
    IF leg_number < 1 \/ leg_number > 6 THEN FALSE
    ELSE IF leg_mapping[leg_number].is_left_side THEN pca1 ELSE pca2

\* variant: the adapter is called whatever computeLegIK returned
Drive_unchecked(leg, role, x, y, z, pca1, pca2) ==
    [leg |-> leg, role |-> role, x |-> x, y |-> y, z |-> z,
     ik |-> computeLegIK(leg, x, y, z),
     sent |-> setLegJointsWithOffset(leg, pca1, pca2)]

\* one "if (computeLegIK(...)) setLegJointsWithOffset(...)" of a sample loop
Drive(leg, role, x, y, z, pca1, pca2) ==
    LET ok == computeLegIK(leg, x, y, z)
    IN  [leg |-> leg, role |-> role, x |-> x, y |-> y, z |-> z,
         ik |-> ok, sent |-> ok /\ setLegJointsWithOffset(leg, pca1, pca2)]

\* no wave or bipedal cycle has been started
NoSteps == [prev |-> 0, cur |-> 0]

NoLegs == [l \in Legs |-> 0]

\* no gait function is executing
IdlePc ==
    [fn |-> "idle", step |-> 0, i |-> 0, direction |-> "WAVE_FORWARD",
     pca1 |-> TRUE, pca2 |-> TRUE]

\* some computeLegIK call of the loop iteration s returned false
AnyIKFailed(s) == \E k \in 1..Len(s) : ~s[k].ik

(***************************************************************************)
(* waveGaitWalk, bipedalGaitWalk, tripodGaitWalk: the same loop in the     *)
(* three gait files.                                                       *)
(***************************************************************************)
NoWalk ==
    [active |-> FALSE, direction |-> "WAVE_FORWARD", num_cycles |-> 0, cycle |-> 0,
     pca1 |-> TRUE, pca2 |-> TRUE, calls |-> 0, ret |-> "none"]

\* entry of a ...GaitWalk function: "for (int cycle = 0; ..."
GaitWalk(direction, num_cycles, pca1, pca2) ==
    /\ pc.fn = "idle"
    /\ ~walk.active
    /\ cycles + (IF num_cycles > 0 THEN num_cycles ELSE 0) <= MaxCycles
    /\ walk' = [active |-> TRUE, direction |-> direction, num_cycles |-> num_cycles,
                cycle |-> 0, pca1 |-> pca1, pca2 |-> pca2, calls |-> 0,
                ret |-> "running"]
    /\ UNCHANGED <<engine, cycle_steps, boot, timer, kin, wave_config, wave_leg_current_y, wave_positions_initialized,
                   bipedal_config, bipedal_leg_current_y, bipedal_positions_initialized,
                   tripod_config, pc, stance_start_y, sample, ret, cycles,
                   cycle_start_y, phase_log, phase_first, shift_count, shift_total,
                   ik_failed, sample_count>>

\* variant: the loop test with "<=" in place of "<"
WalkLoopTest_inclusive == walk.cycle <= walk.num_cycles

\* the loop test "cycle < num_cycles"
WalkLoopTest == walk.cycle < walk.num_cycles

\* the walk is about to call the cycle function once more
WalkCallsCycle == walk.active /\ pc.fn = "idle" /\ WalkLoopTest

\* the rest of the loop body once the cycle function has returned success:
\* "if (!success) return false;" and "cycle++"
WalkAfterCycle(success) ==
    IF ~walk.active THEN walk
    ELSE IF success THEN [walk EXCEPT !.cycle = @ + 1]
    ELSE [NoWalk EXCEPT !.num_cycles = walk.num_cycles, !.cycle = walk.cycle,
                        !.calls = walk.calls,
                        !.ret = "false"]

\* the loop test fails: the walk returns true
GaitWalkReturn ==
    /\ walk.active
    /\ pc.fn = "idle"
    /\ ~WalkLoopTest
    /\ walk' = [NoWalk EXCEPT !.num_cycles = walk.num_cycles, !.cycle = walk.cycle,
                        !.calls = walk.calls,
                              !.ret = "true"]
    /\ UNCHANGED <<engine, cycle_steps, boot, timer, kin, wave_config, wave_leg_current_y, wave_positions_initialized,
                   bipedal_config, bipedal_leg_current_y, bipedal_positions_initialized,
                   tripod_config, pc, stance_start_y, sample, ret, cycles,
                   cycle_start_y, phase_log, phase_first, shift_count, shift_total,
                   ik_failed, sample_count>>

(***************************************************************************)
(* wave_gait.c                                                             *)
(***************************************************************************)
\* variant: legs 2 and 3 exchanged in the sequence table
wave_sequence_swapped == <<1, 3, 2, 4, 5, 6>>
wave_sequence == <<1, 2, 3, 4, 5, 6>>

wave_stance_points == 20

DefaultWaveConfig ==
    [step_length |-> cm(4), lift_height |-> cm(4), step_duration_ms |-> 10,
     step_points |-> 50, step_height_base |-> -cm(24)]

\* the leg that executeLegStep swings in step number step (0-based)
WaveSwingLeg(step) == wave_sequence[step + 1]

\* variant: the swing starts at the base position
WaveSwingStartY_base(leg_number) == base_positions[leg_number][2]

\* swing_start_y of executeSwingPhase
WaveSwingStartY(leg_number) == wave_leg_current_y[leg_number]

\* variant: the swing ends half a step behind the place it started from
WaveSwingEndY_fromStart(leg_number, direction) ==
    wave_leg_current_y[leg_number] - wave_config.step_length \div 2

\* swing_end_y of executeSwingPhase; the direction argument is not read
WaveSwingEndY(leg_number, direction) ==
    base_positions[leg_number][2] - wave_config.step_length

\* variant: the divisor of the three-pair gait
WaveStanceShift_third == wave_config.step_length \div 3

\* stance_shift of executeStanceShift
WaveStanceShift == wave_config.step_length \div 6

\* variant: the inner loop without its "continue"
WaveOtherLegs_all(leg_number) == LegOrder

\* the legs the inner "for (leg = 1; leg <= 6; leg++)" of the swing loop drives
WaveOtherLegs(leg_number) == SelectSeq(LegOrder, LAMBDA leg : leg # leg_number)

\* y the swing loop gives a leg that is not swinging
WaveHoldY(leg, y) == y[leg]

\* z the swing loop gives the swinging leg at t = tn / td
WaveSwingZ(leg_number, tn, td) ==
    base_positions[leg_number][3] - arc_height(wave_config.lift_height, tn, td)

\* iteration i of the loop of executeSwingPhase; y is leg_current_y after the
\* "if (i == step_points)" assignment of this iteration
WaveSwingEvents(leg_number, direction, i, y, pca1, pca2) ==
    LET td == wave_config.step_points
        smooth_t == cubicInterpolation(i, td)
        swing_start_y == WaveSwingStartY(leg_number)
        swing_end_y == WaveSwingEndY(leg_number, direction)
        others == WaveOtherLegs(leg_number)
    IN  << Drive(leg_number, "swing", base_positions[leg_number][1],
                 lerp(swing_start_y, swing_end_y, smooth_t),
                 WaveSwingZ(leg_number, i, td), pca1, pca2) >>
        \o [k \in 1..Len(others) |->
               Drive(others[k], "hold", base_positions[others[k]][1],
                     WaveHoldY(others[k], y), base_positions[others[k]][3],
                     pca1, pca2)]

\* iteration i of the loop of executeStanceShift
WaveStanceEvents(start, i, pca1, pca2) ==
    LET smooth_t == cubicInterpolation(i, wave_stance_points)
    IN  [k \in 1..6 |->
            Drive(k, "stance", base_positions[k][1],
                  lerp(start[k], start[k] + WaveStanceShift, smooth_t),
                  base_positions[k][3], pca1, pca2)]

\* variant: every cycle sets the tracked offsets back to the base positions
WaveEntryY_always == BaseY

\* leg_current_y after "if (!positions_initialized) initializeLegPositions();"
WaveEntryY == IF wave_positions_initialized THEN wave_leg_current_y ELSE BaseY

\* waveGaitCycle up to the first executeLegStep
WaveGaitCycle(direction, pca1, pca2) ==
    /\ engine = "wave"
    /\ pc.fn = "idle"
    /\ cycles < MaxCycles
    /\ wave_leg_current_y' = WaveEntryY
    /\ wave_positions_initialized' = TRUE
    /\ pc' = [fn |-> "swing", step |-> 0, i |-> 0, direction |-> direction,
              pca1 |-> pca1, pca2 |-> pca2]
    /\ cycles' = cycles + 1
    /\ cycle_start_y' = wave_leg_current_y'
    /\ phase_log' = << >>
    /\ phase_first' = << >>
    /\ sample' = << >>
    /\ shift_count' = NoLegs
    /\ shift_total' = NoLegs
    /\ ret' = "running"
    /\ ik_failed' = FALSE
    /\ sample_count' = 0
    /\ walk' = IF walk.active THEN [walk EXCEPT !.calls = @ + 1] ELSE NoWalk
    /\ cycle_steps' = [prev |-> cycle_steps.cur, cur |-> wave_config.step_length]
    /\ UNCHANGED <<engine, boot, timer, kin, wave_config, bipedal_config, bipedal_leg_current_y,
                   bipedal_positions_initialized, tripod_config, stance_start_y>>

\* one iteration of the sample loop of executeSwingPhase
WaveSwingSample ==
    /\ engine = "wave"
    /\ pc.fn = "swing"
    /\ LET leg_number == WaveSwingLeg(pc.step)
           i == pc.i
           last == (i = wave_config.step_points)
           y == IF last
                THEN [wave_leg_current_y EXCEPT
                        ![leg_number] = WaveSwingEndY(leg_number, pc.direction)]
                ELSE wave_leg_current_y
       IN  /\ wave_leg_current_y' = y
           /\ sample' = WaveSwingEvents(leg_number, pc.direction, i, y, pc.pca1, pc.pca2)
           /\ phase_first' = IF i = 0 THEN sample' ELSE phase_first
           /\ phase_log' = IF i = 0
                           THEN Append(phase_log, [phase |-> "swing", legs |-> {leg_number}])
                           ELSE phase_log
           /\ pc' = IF last THEN [pc EXCEPT !.fn = "stance", !.i = 0]
                    ELSE [pc EXCEPT !.i = i + 1]
    /\ ik_failed' = (ik_failed \/ AnyIKFailed(sample'))
    /\ sample_count' = sample_count + 1
    /\ UNCHANGED <<engine, cycle_steps, boot, timer, kin, walk, wave_config, wave_positions_initialized, bipedal_config,
                   bipedal_leg_current_y, bipedal_positions_initialized,
                   tripod_config, stance_start_y, ret, cycles, cycle_start_y,
                   shift_count, shift_total>>

\* one iteration of the sample loop of executeStanceShift; iteration 0
\* includes the copy of leg_current_y into stance_start_y
WaveStanceSample ==
    /\ engine = "wave"
    /\ pc.fn = "stance"
    /\ LET i == pc.i
           last == (i = wave_stance_points)
           start == IF i = 0 THEN wave_leg_current_y ELSE stance_start_y
       IN  /\ stance_start_y' = start
           /\ sample' = WaveStanceEvents(start, i, pc.pca1, pc.pca2)
           /\ wave_leg_current_y' =
                 IF last THEN [l \in Legs |-> start[l] + WaveStanceShift]
                 ELSE wave_leg_current_y
           /\ shift_count' = IF last THEN [l \in Legs |-> shift_count[l] + 1]
                             ELSE shift_count
           /\ shift_total' = [l \in Legs |-> shift_total[l]
                                   + (wave_leg_current_y'[l] - wave_leg_current_y[l])]
           /\ phase_first' = IF i = 0 THEN sample' ELSE phase_first
           /\ phase_log' = IF i = 0
                           THEN Append(phase_log, [phase |-> "stance", legs |-> Legs])
                           ELSE phase_log
           /\ pc' = IF ~last THEN [pc EXCEPT !.i = i + 1]
                    ELSE IF pc.step + 1 < 6
                         THEN [pc EXCEPT !.fn = "swing", !.step = pc.step + 1, !.i = 0]
                         ELSE [pc EXCEPT !.fn = "check"]
    /\ ik_failed' = (ik_failed \/ AnyIKFailed(sample'))
    /\ sample_count' = sample_count + 1
    /\ UNCHANGED <<engine, cycle_steps, boot, timer, kin, walk, wave_config, wave_positions_initialized, bipedal_config,
                   bipedal_leg_current_y, bipedal_positions_initialized,
                   tripod_config, ret, cycles, cycle_start_y>>

\* the end of waveGaitCycle: the final positions are printed, true is returned
WaveCycleReturn ==
    /\ engine = "wave"
    /\ pc.fn = "check"
    /\ ret' = "true"
    /\ pc' = IdlePc
    /\ walk' = WalkAfterCycle(ret' = "true")
    /\ UNCHANGED <<engine, cycle_steps, boot, timer, kin, ik_failed, sample_count, wave_config, wave_leg_current_y, wave_positions_initialized,
                   bipedal_config, bipedal_leg_current_y, bipedal_positions_initialized,
                   tripod_config, stance_start_y, sample, cycles, cycle_start_y,
                   phase_log, phase_first, shift_count, shift_total>>

\* variant: a step longer than 6 cm is cut down to 6 cm
setWaveConfig_clamped(step_length, lift_height, step_duration, step_points) ==
    /\ engine = "wave"
    /\ pc.fn = "idle"
    /\ ~walk.active
    /\ wave_config' = [wave_config EXCEPT !.step_length = IF step_length > cm(6) THEN cm(6)
                                                          ELSE step_length,
                                          !.lift_height = lift_height,
                                          !.step_duration_ms = step_duration,
                                          !.step_points = step_points]
    /\ UNCHANGED <<engine, cycle_steps, boot, timer, kin, walk, ik_failed, sample_count, wave_leg_current_y, wave_positions_initialized,
                   bipedal_config, bipedal_leg_current_y, bipedal_positions_initialized,
                   tripod_config, pc, stance_start_y, sample, ret, cycles,
                   cycle_start_y, phase_log, phase_first, shift_count, shift_total>>

setWaveConfig(step_length, lift_height, step_duration, step_points) ==
    /\ engine = "wave"
    /\ pc.fn = "idle"
    /\ ~walk.active
    /\ wave_config' = [wave_config EXCEPT !.step_length = step_length,
                                          !.lift_height = lift_height,
                                          !.step_duration_ms = step_duration,
                                          !.step_points = step_points]
    /\ UNCHANGED <<engine, cycle_steps, boot, timer, kin, walk, ik_failed, sample_count, wave_leg_current_y, wave_positions_initialized,
                   bipedal_config, bipedal_leg_current_y, bipedal_positions_initialized,
                   tripod_config, pc, stance_start_y, sample, ret, cycles,
                   cycle_start_y, phase_log, phase_first, shift_count, shift_total>>

\* waveGaitWalk
waveGaitWalk(direction, num_cycles, pca1, pca2) ==
    engine = "wave" /\ GaitWalk(direction, num_cycles, pca1, pca2)

WaveNext ==
    \/ \E d \in WaveDirections, pca1 \in BOOLEAN, pca2 \in BOOLEAN :
          ~walk.active /\ WaveGaitCycle(d, pca1, pca2)
    \/ \E d \in WaveDirections, n \in NumCycles, pca1 \in BOOLEAN, pca2 \in BOOLEAN :
          waveGaitWalk(d, n, pca1, pca2)
    \/ WalkCallsCycle /\ WaveGaitCycle(walk.direction, walk.pca1, walk.pca2)
    \/ engine = "wave" /\ GaitWalkReturn
    \/ WaveSwingSample
    \/ WaveStanceSample
    \/ WaveCycleReturn
    \/ \E sl \in StepLengths, lh \in LiftHeights, du \in Durations, sp \in PointCounts :
          setWaveConfig(sl, lh, du, sp)

(***************************************************************************)
(* bipedal_gait.c                                                          *)
(***************************************************************************)
\* variant: left/right neighbours paired
leg_pairs_adjacent == << <<1, 2>>, <<3, 4>>, <<5, 6>> >>
leg_pairs == << <<1, 4>>, <<2, 5>>, <<3, 6>> >>

bipedal_stance_points == 10

DefaultBipedalConfig ==
    [step_length |-> cm(4), lift_height |-> cm(4), step_duration_ms |-> 50,
     step_points |-> 20, step_height_base |-> -cm(24)]

\* swing_leg1, swing_leg2 of executeSwingPhase
BipedalSwingLegs(pair_index) == leg_pairs[pair_index + 1]

\* variant: without both handles the swing leaves the leg where it stood
BipedalSwingEndY_needsHandles(leg_number, direction) ==
    IF pc.pca1 /\ pc.pca2
    THEN base_positions[leg_number][2] - bipedal_config.step_length
    ELSE bipedal_leg_current_y[leg_number]

\* swing_end_y of executeSwingPhase; the direction argument is not read
BipedalSwingEndY(leg_number, direction) ==
    base_positions[leg_number][2] - bipedal_config.step_length

\* stance_shift of executeStanceShift
BipedalStanceShift == bipedal_config.step_length \div 3

\* the legs the second inner loop of the swing loop drives
BipedalOtherLegs(swing_leg1, swing_leg2) ==
    SelectSeq(LegOrder, LAMBDA leg : ~(leg = swing_leg1 \/ leg = swing_leg2))

\* variant: the base y instead of the tracked offset
BipedalHoldY_base(leg, y) == base_positions[leg][2]

\* y the swing loop gives a leg that is not swinging
BipedalHoldY(leg, y) == y[leg]

\* z the swing loop gives a swinging leg at t = tn / td
BipedalSwingZ(leg_number, tn, td) ==
    base_positions[leg_number][3] - arc_height(bipedal_config.lift_height, tn, td)

\* iteration i of the loop of executeSwingPhase; y is leg_current_y after the
\* "if (i == step_points)" assignments of this iteration
BipedalSwingEvents(pair_index, direction, i, y, pca1, pca2) ==
    LET td == bipedal_config.step_points
        smooth_t == cubicInterpolation(i, td)
        pair == BipedalSwingLegs(pair_index)
        others == BipedalOtherLegs(pair[1], pair[2])
    IN  [p \in 1..2 |->
            Drive(pair[p], "swing", base_positions[pair[p]][1],
                  lerp(bipedal_leg_current_y[pair[p]],
                       BipedalSwingEndY(pair[p], direction), smooth_t),
                  BipedalSwingZ(pair[p], i, td), pca1, pca2)]
        \o [k \in 1..Len(others) |->
               Drive(others[k], "hold", base_positions[others[k]][1],
                     BipedalHoldY(others[k], y), base_positions[others[k]][3],
                     pca1, pca2)]

\* iteration i of the loop of executeStanceShift
BipedalStanceEvents(start, i, pca1, pca2) ==
    LET smooth_t == cubicInterpolation(i, bipedal_stance_points)
    IN  [k \in 1..6 |->
            Drive(k, "stance", base_positions[k][1],
                  lerp(start[k], start[k] + BipedalStanceShift, smooth_t),
                  base_positions[k][3], pca1, pca2)]

\* leg_current_y after "if (!positions_initialized) initializeLegPositions();"
BipedalEntryY == IF bipedal_positions_initialized THEN bipedal_leg_current_y ELSE BaseY

\* bipedalGaitCycle up to the first executePairStep
BipedalGaitCycle(direction, pca1, pca2) ==
    /\ engine = "bipedal"
    /\ pc.fn = "idle"
    /\ cycles < MaxCycles
    /\ bipedal_leg_current_y' = BipedalEntryY
    /\ bipedal_positions_initialized' = TRUE
    /\ pc' = [fn |-> "swing", step |-> 0, i |-> 0, direction |-> direction,
              pca1 |-> pca1, pca2 |-> pca2]
    /\ cycles' = cycles + 1
    /\ cycle_start_y' = bipedal_leg_current_y'
    /\ phase_log' = << >>
    /\ phase_first' = << >>
    /\ sample' = << >>
    /\ shift_count' = NoLegs
    /\ shift_total' = NoLegs
    /\ ret' = "running"
    /\ ik_failed' = FALSE
    /\ sample_count' = 0
    /\ walk' = IF walk.active THEN [walk EXCEPT !.calls = @ + 1] ELSE NoWalk
    /\ cycle_steps' = [prev |-> cycle_steps.cur, cur |-> bipedal_config.step_length]
    /\ UNCHANGED <<engine, boot, timer, kin, wave_config, wave_leg_current_y, wave_positions_initialized,
                   bipedal_config, tripod_config, stance_start_y>>

\* one iteration of the sample loop of executeSwingPhase
BipedalSwingSample ==
    /\ engine = "bipedal"
    /\ pc.fn = "swing"
    /\ LET pair == BipedalSwingLegs(pc.step)
           i == pc.i
           last == (i = bipedal_config.step_points)
           y == IF last
                THEN [l \in Legs |->
                        IF l = pair[1] \/ l = pair[2]
                        THEN BipedalSwingEndY(l, pc.direction)
                        ELSE bipedal_leg_current_y[l]]
                ELSE bipedal_leg_current_y
       IN  /\ bipedal_leg_current_y' = y
           /\ sample' = BipedalSwingEvents(pc.step, pc.direction, i, y, pc.pca1, pc.pca2)
           /\ phase_first' = IF i = 0 THEN sample' ELSE phase_first
           /\ phase_log' = IF i = 0
                           THEN Append(phase_log,
                                       [phase |-> "swing", legs |-> {pair[1], pair[2]}])
                           ELSE phase_log
           /\ pc' = IF last THEN [pc EXCEPT !.fn = "stance", !.i = 0]
                    ELSE [pc EXCEPT !.i = i + 1]
    /\ ik_failed' = (ik_failed \/ AnyIKFailed(sample'))
    /\ sample_count' = sample_count + 1
    /\ UNCHANGED <<engine, cycle_steps, boot, timer, kin, walk, wave_config, wave_leg_current_y, wave_positions_initialized,
                   bipedal_config, bipedal_positions_initialized, tripod_config,
                   stance_start_y, ret, cycles, cycle_start_y, shift_count, shift_total>>

\* one iteration of the sample loop of executeStanceShift; iteration 0
\* includes the copy of leg_current_y into stance_start_y
BipedalStanceSample ==
    /\ engine = "bipedal"
    /\ pc.fn = "stance"
    /\ LET i == pc.i
           last == (i = bipedal_stance_points)
           start == IF i = 0 THEN bipedal_leg_current_y ELSE stance_start_y
       IN  /\ stance_start_y' = start
           /\ sample' = BipedalStanceEvents(start, i, pc.pca1, pc.pca2)
           /\ bipedal_leg_current_y' =
                 IF last THEN [l \in Legs |-> start[l] + BipedalStanceShift]
                 ELSE bipedal_leg_current_y
           /\ shift_count' = IF last THEN [l \in Legs |-> shift_count[l] + 1]
                             ELSE shift_count
           /\ shift_total' = [l \in Legs |-> shift_total[l]
                                   + (bipedal_leg_current_y'[l] - bipedal_leg_current_y[l])]
           /\ phase_first' = IF i = 0 THEN sample' ELSE phase_first
           /\ phase_log' = IF i = 0
                           THEN Append(phase_log, [phase |-> "stance", legs |-> Legs])
                           ELSE phase_log
           /\ pc' = IF ~last THEN [pc EXCEPT !.i = i + 1]
                    ELSE IF pc.step + 1 < 3
                         THEN [pc EXCEPT !.fn = "swing", !.step = pc.step + 1, !.i = 0]
                         ELSE [pc EXCEPT !.fn = "check"]
    /\ ik_failed' = (ik_failed \/ AnyIKFailed(sample'))
    /\ sample_count' = sample_count + 1
    /\ UNCHANGED <<engine, cycle_steps, boot, timer, kin, walk, wave_config, wave_leg_current_y, wave_positions_initialized,
                   bipedal_config, bipedal_positions_initialized, tripod_config,
                   ret, cycles, cycle_start_y>>

\* the end of bipedalGaitCycle: the final positions are printed, true is returned
BipedalCycleReturn ==
    /\ engine = "bipedal"
    /\ pc.fn = "check"
    /\ ret' = "true"
    /\ pc' = IdlePc
    /\ walk' = WalkAfterCycle(ret' = "true")
    /\ UNCHANGED <<engine, cycle_steps, boot, timer, kin, ik_failed, sample_count, wave_config, wave_leg_current_y, wave_positions_initialized,
                   bipedal_config, bipedal_leg_current_y, bipedal_positions_initialized,
                   tripod_config, stance_start_y, sample, cycles, cycle_start_y,
                   phase_log, phase_first, shift_count, shift_total>>

setBipedalConfig(step_length, lift_height, step_duration, step_points) ==
    /\ engine = "bipedal"
    /\ pc.fn = "idle"
    /\ ~walk.active
    /\ bipedal_config' = [bipedal_config EXCEPT !.step_length = step_length,
                                                !.lift_height = lift_height,
                                                !.step_duration_ms = step_duration,
                                                !.step_points = step_points]
    /\ UNCHANGED <<engine, cycle_steps, boot, timer, kin, walk, ik_failed, sample_count, wave_config, wave_leg_current_y, wave_positions_initialized,
                   bipedal_leg_current_y, bipedal_positions_initialized,
                   tripod_config, pc, stance_start_y, sample, ret, cycles,
                   cycle_start_y, phase_log, phase_first, shift_count, shift_total>>

\* bipedalGaitWalk
bipedalGaitWalk(direction, num_cycles, pca1, pca2) ==
    engine = "bipedal" /\ GaitWalk(direction, num_cycles, pca1, pca2)

BipedalNext ==
    \/ \E d \in BipedalDirections, pca1 \in BOOLEAN, pca2 \in BOOLEAN :
          ~walk.active /\ BipedalGaitCycle(d, pca1, pca2)
    \/ \E d \in BipedalDirections, n \in NumCycles, pca1 \in BOOLEAN, pca2 \in BOOLEAN :
          bipedalGaitWalk(d, n, pca1, pca2)
    \/ WalkCallsCycle /\ BipedalGaitCycle(walk.direction, walk.pca1, walk.pca2)
    \/ engine = "bipedal" /\ GaitWalkReturn
    \/ BipedalSwingSample
    \/ BipedalStanceSample
    \/ BipedalCycleReturn
    \/ \E sl \in StepLengths, lh \in LiftHeights, du \in Durations, sp \in PointCounts :
          setBipedalConfig(sl, lh, du, sp)

(***************************************************************************)
(* tripod_gait.c                                                           *)
(***************************************************************************)
DefaultTripodConfig ==
    [step_length |-> cm(6), lift_height |-> cm(4), swing_duration_ms |-> 5,
     stance_duration_ms |-> 5, swing_points |-> 120, stance_points |-> 60,
     step_height_base |-> -cm(24)]

\* the one leg tripodGaitCycle drives
TripodLeg == 3

\* variant: in a turn the rear legs get the offset of the front legs
calculateTargetPosition_rearAsFront(leg_number, direction) ==
    LET base_x == base_positions[leg_number][1]
        base_y == base_positions[leg_number][2]
        base_z == base_positions[leg_number][3]
        sl == tripod_config.step_length
        ends == leg_number \in {1, 2, 5, 6}
    IN  CASE direction = "TRIPOD_FORWARD"  -> <<base_x, base_y - sl, base_z>>
          [] direction = "TRIPOD_BACKWARD" -> <<base_x, base_y + sl, base_z>>
          [] direction = "TRIPOD_LEFT"     -> <<base_x + sl, base_y, base_z>>
          [] direction = "TRIPOD_RIGHT"    -> <<base_x - sl, base_y, base_z>>
          [] direction = "TRIPOD_TURN_LEFT" ->
                IF ends THEN <<base_x + sl, base_y, base_z>> ELSE <<base_x, base_y, base_z>>
          [] direction = "TRIPOD_TURN_RIGHT" ->
                IF ends THEN <<base_x - sl, base_y, base_z>> ELSE <<base_x, base_y, base_z>>
          [] OTHER -> <<base_x, base_y, base_z>>

\* calculateTargetPosition: <<target_x, target_y, target_z>>
calculateTargetPosition(leg_number, direction) ==
    LET base_x == base_positions[leg_number][1]
        base_y == base_positions[leg_number][2]
        base_z == base_positions[leg_number][3]
        sl == tripod_config.step_length
    IN  CASE direction = "TRIPOD_FORWARD"  -> <<base_x, base_y - sl, base_z>>
          [] direction = "TRIPOD_BACKWARD" -> <<base_x, base_y + sl, base_z>>
          [] direction = "TRIPOD_LEFT"     -> <<base_x + sl, base_y, base_z>>
          [] direction = "TRIPOD_RIGHT"    -> <<base_x - sl, base_y, base_z>>
          [] direction = "TRIPOD_TURN_LEFT" ->
                IF leg_number = 1 \/ leg_number = 2 THEN <<base_x + sl, base_y, base_z>>
                ELSE IF leg_number = 5 \/ leg_number = 6 THEN <<base_x - sl, base_y, base_z>>
                ELSE <<base_x, base_y, base_z>>
          [] direction = "TRIPOD_TURN_RIGHT" ->
                IF leg_number = 1 \/ leg_number = 2 THEN <<base_x - sl, base_y, base_z>>
                ELSE IF leg_number = 5 \/ leg_number = 6 THEN <<base_x + sl, base_y, base_z>>
                ELSE <<base_x, base_y, base_z>>
          [] OTHER -> <<base_x, base_y, base_z>>

\* <<start_x, start_y>> of executeStancePhase
TripodStanceStart(leg_number, direction) ==
    LET base_x == base_positions[leg_number][1]
        base_y == base_positions[leg_number][2]
        sl == tripod_config.step_length
    IN  CASE direction = "TRIPOD_FORWARD"  -> <<base_x, base_y + sl>>
          [] direction = "TRIPOD_BACKWARD" -> <<base_x, base_y - sl>>
          [] direction = "TRIPOD_LEFT"     -> <<base_x - sl, base_y>>
          [] direction = "TRIPOD_RIGHT"    -> <<base_x + sl, base_y>>
          [] direction = "TRIPOD_TURN_LEFT" ->
                IF leg_number = 1 \/ leg_number = 2 THEN <<base_x - sl, base_y>>
                ELSE IF leg_number = 5 \/ leg_number = 6 THEN <<base_x + sl, base_y>>
                ELSE <<base_x, base_y>>
          [] direction = "TRIPOD_TURN_RIGHT" ->
                IF leg_number = 1 \/ leg_number = 2 THEN <<base_x + sl, base_y>>
                ELSE IF leg_number = 5 \/ leg_number = 6 THEN <<base_x - sl, base_y>>
                ELSE <<base_x, base_y>>
          [] OTHER -> <<base_x, base_y>>

\* variant: the stance ends one step_length before the base position
TripodStanceEnd_front(leg_number) ==
    <<base_positions[leg_number][1],
      base_positions[leg_number][2] - tripod_config.step_length>>

\* <<end_x, end_y>> of executeStancePhase: the stance ends at the base position
TripodStanceEnd(leg_number) ==
    <<base_positions[leg_number][1], base_positions[leg_number][2]>>

\* setLegJoints (test_positions.c) writes the servos of legs 1, 3, 5 only
setLegJoints(leg_number) == leg_number = 1 \/ leg_number = 3 \/ leg_number = 5

\* one "if (computeLegIK(...)) setLegJoints(pca, ...)" of a tripod sample loop
TripodDrive(leg, role, x, y, z) ==
    LET ok == computeLegIK(leg, x, y, z)
    IN  [leg |-> leg, role |-> role, x |-> x, y |-> y, z |-> z,
         ik |-> ok, sent |-> ok /\ setLegJoints(leg)]

\* the legs the two phases of tripodGaitCycle run executeStancePhase and
\* executeSwingPhase for
TripodStanceLegs == <<TripodLeg>>
TripodSwingLegs == <<TripodLeg>>

\* iteration i of the loop of executeStancePhase
TripodStanceEvents(leg_number, direction, i) ==
    LET smooth_t == cubicInterpolation(i, tripod_config.stance_points)
        start == TripodStanceStart(leg_number, direction)
        end == TripodStanceEnd(leg_number)
    IN  << TripodDrive(leg_number, "stance",
                       lerp(start[1], end[1], smooth_t),
                       lerp(start[2], end[2], smooth_t),
                       base_positions[leg_number][3]) >>

\* iteration i of the loop of executeSwingPhase
TripodSwingEvents(leg_number, direction, i) ==
    LET td == tripod_config.swing_points
        smooth_t == cubicInterpolation(i, td)
        target == calculateTargetPosition(leg_number, direction)
    IN  << TripodDrive(leg_number, "swing",
                       lerp(base_positions[leg_number][1], target[1], smooth_t),
                       lerp(base_positions[leg_number][2], target[2], smooth_t),
                       base_positions[leg_number][3]
                          - arc_height(tripod_config.lift_height, i, td)) >>

(***************************************************************************)
(* Timing of the tripod phases.  HAL_GetTick() is the millisecond counter  *)
(* of the HAL; "HAL_GetTick() * 1000" and next_time are uint32_t, kept     *)
(* here as <<high, low>> halves of 16 bits so that the wrap at 2^32 is     *)
(* exact.  The tick advances only inside the busy-wait: the computation of *)
(* a sample and its servo writes are taken to cost no tick.                *)
(***************************************************************************)
HalfWord == 256 * 256

\* 2^32 / 1000: the last tick whose microsecond value has not wrapped
WrapTick == (HalfWord * (HalfWord \div 8)) \div 125

\* values of HAL_GetTick() at the call of tripodGaitCycle
StartTicks == {0, WrapTick - 2}

\* "HAL_GetTick() * 1000" in uint32_t
TickMicros(tick) ==
    LET low == (tick % HalfWord) * 1000
    IN  <<((tick \div HalfWord) * 1000 + low \div HalfWord) % HalfWord, low % HalfWord>>

\* "next_time += point_delay" in uint32_t
U32Add(a, d) ==
    LET low == a[2] + d
    IN  <<(a[1] + low \div HalfWord) % HalfWord, low % HalfWord>>

\* "a < b" of two uint32_t
U32Less(a, b) == a[1] < b[1] \/ (a[1] = b[1] /\ a[2] < b[2])

\* "uint32_t point_delay = duration_ms * 1000 / points"
point_delay(duration_ms, points) == (duration_ms * 1000) \div points

NoTimer == [tick |-> 0, start |-> 0, next_time |-> <<0, 0>>, waiting |-> FALSE]

\* the timing statements of one loop iteration: "next_time = HAL_GetTick() * 1000"
\* before iteration 0, then "next_time += point_delay" and the first test of
\* "while ((HAL_GetTick() * 1000) < next_time)"
TimerAfterSample(duration_ms, points, first) ==
    LET from == IF first THEN TickMicros(timer.tick) ELSE timer.next_time
        next_time == U32Add(from, point_delay(duration_ms, points))
    IN  [tick |-> timer.tick,
         start |-> IF first THEN timer.tick ELSE timer.start,
         next_time |-> next_time,
         waiting |-> U32Less(TickMicros(timer.tick), next_time)]

\* one tick of SysTick inside "while ((HAL_GetTick() * 1000) < next_time) {}"
TripodBusyWait ==
    /\ engine = "tripod"
    /\ timer.waiting
    /\ timer.tick - timer.start < MaxWaitTicks
    /\ timer' = [timer EXCEPT !.tick = @ + 1,
                              !.waiting = U32Less(TickMicros(timer.tick + 1), timer.next_time)]
    /\ UNCHANGED <<engine, cycle_steps, boot, kin, walk, wave_config, wave_leg_current_y,
                   wave_positions_initialized, bipedal_config, bipedal_leg_current_y,
                   bipedal_positions_initialized, tripod_config, pc, stance_start_y,
                   sample, ret, cycles, cycle_start_y, phase_log, phase_first,
                   shift_count, shift_total, ik_failed, sample_count>>

\* tripodGaitCycle up to the first phase; both phases are skipped when pca1 is NULL
TripodGaitCycle(direction, pca1, pca2) ==
    /\ engine = "tripod"
    /\ pc.fn = "idle"
    /\ cycles < MaxCycles
    /\ pc' = [fn |-> IF pca1 THEN "stance" ELSE "check", step |-> 0, i |-> 0,
              direction |-> direction, pca1 |-> pca1, pca2 |-> pca2]
    /\ cycles' = cycles + 1
    /\ phase_log' = << >>
    /\ phase_first' = << >>
    /\ sample' = << >>
    /\ shift_count' = NoLegs
    /\ shift_total' = NoLegs
    /\ ret' = "running"
    /\ ik_failed' = FALSE
    /\ sample_count' = 0
    /\ walk' = IF walk.active THEN [walk EXCEPT !.calls = @ + 1] ELSE NoWalk
    /\ \E tick \in StartTicks : timer' = [NoTimer EXCEPT !.tick = tick, !.start = tick]
    /\ UNCHANGED <<engine, cycle_steps, boot, kin, wave_config, wave_leg_current_y, wave_positions_initialized,
                   bipedal_config, bipedal_leg_current_y, bipedal_positions_initialized,
                   tripod_config, stance_start_y, cycle_start_y>>

\* one iteration of the sample loop of executeStancePhase(pca1, 3, direction)
TripodStanceSample ==
    /\ engine = "tripod"
    /\ pc.fn = "stance"
    /\ ~timer.waiting
    /\ timer' = TimerAfterSample(tripod_config.stance_duration_ms,
                                 tripod_config.stance_points, pc.i = 0)
    /\ LET i == pc.i
           last == (i = tripod_config.stance_points)
           leg == TripodStanceLegs[1]
           start == TripodStanceStart(leg, pc.direction)
           end == TripodStanceEnd(leg)
           moved == Abs(end[1] - start[1]) + Abs(end[2] - start[2])
       IN  /\ sample' = TripodStanceEvents(leg, pc.direction, i)
           /\ shift_count' = IF last THEN [shift_count EXCEPT ![leg] = @ + 1]
                             ELSE shift_count
           /\ shift_total' = IF last THEN [shift_total EXCEPT ![leg] = @ + moved]
                             ELSE shift_total
           /\ phase_first' = IF i = 0 THEN sample' ELSE phase_first
           /\ phase_log' = IF i = 0
                           THEN Append(phase_log, [phase |-> "stance", legs |-> {leg}])
                           ELSE phase_log
           /\ pc' = IF last THEN [pc EXCEPT !.fn = "swing", !.step = 1, !.i = 0]
                    ELSE [pc EXCEPT !.i = i + 1]
    /\ ik_failed' = (ik_failed \/ AnyIKFailed(sample'))
    /\ sample_count' = sample_count + 1
    /\ UNCHANGED <<engine, cycle_steps, boot, kin, walk, wave_config, wave_leg_current_y, wave_positions_initialized,
                   bipedal_config, bipedal_leg_current_y, bipedal_positions_initialized,
                   tripod_config, stance_start_y, ret, cycles, cycle_start_y>>

\* one iteration of the sample loop of executeSwingPhase(pca1, 3, direction);
\* iteration 0 includes the reachability test of the target, whose failure
\* makes executeSwingPhase return false before the loop
TripodSwingSample ==
    /\ engine = "tripod"
    /\ pc.fn = "swing"
    /\ ~timer.waiting
    /\ LET i == pc.i
           last == (i = tripod_config.swing_points)
           leg == TripodSwingLegs[1]
           target == calculateTargetPosition(leg, pc.direction)
           abort == i = 0 /\ ~computeLegIK(leg, target[1], target[2], target[3])
       IN  /\ sample' = IF abort THEN << >> ELSE TripodSwingEvents(leg, pc.direction, i)
           /\ phase_first' = IF i = 0 THEN sample' ELSE phase_first
           /\ phase_log' = IF i = 0 /\ ~abort
                           THEN Append(phase_log, [phase |-> "swing", legs |-> {leg}])
                           ELSE phase_log
           /\ pc' = IF abort \/ last THEN [pc EXCEPT !.fn = "check"]
                    ELSE [pc EXCEPT !.i = i + 1]
           /\ ik_failed' = (ik_failed \/ abort \/ AnyIKFailed(sample'))
           /\ sample_count' = IF abort THEN sample_count ELSE sample_count + 1
           /\ timer' = IF abort THEN timer
                       ELSE TimerAfterSample(tripod_config.swing_duration_ms,
                                             tripod_config.swing_points, i = 0)
    /\ UNCHANGED <<engine, cycle_steps, boot, kin, walk, wave_config, wave_leg_current_y, wave_positions_initialized,
                   bipedal_config, bipedal_leg_current_y, bipedal_positions_initialized,
                   tripod_config, stance_start_y, ret, cycles, cycle_start_y,
                   shift_count, shift_total>>

\* the end of tripodGaitCycle: true is returned
TripodCycleReturn ==
    /\ engine = "tripod"
    /\ pc.fn = "check"
    /\ ~timer.waiting
    /\ ret' = "true"
    /\ pc' = IdlePc
    /\ walk' = WalkAfterCycle(ret' = "true")
    /\ timer' = NoTimer
    /\ UNCHANGED <<engine, cycle_steps, boot, kin, ik_failed, sample_count, wave_config, wave_leg_current_y, wave_positions_initialized,
                   bipedal_config, bipedal_leg_current_y, bipedal_positions_initialized,
                   tripod_config, stance_start_y, sample, cycles, cycle_start_y,
                   phase_log, phase_first, shift_count, shift_total>>

setTripodConfig(step_length, lift_height, swing_duration, stance_duration, swing_points, stance_points) ==
    /\ engine \in {"tripod", "kinematics"}
    /\ pc.fn = "idle"
    /\ ~walk.active
    /\ tripod_config' = [tripod_config EXCEPT !.step_length = step_length,
                                              !.lift_height = lift_height,
                                              !.swing_duration_ms = swing_duration,
                                              !.stance_duration_ms = stance_duration,
                                              !.swing_points = swing_points,
                                              !.stance_points = stance_points]
    /\ UNCHANGED <<engine, cycle_steps, boot, timer, kin, walk, ik_failed, sample_count, wave_config, wave_leg_current_y, wave_positions_initialized,
                   bipedal_config, bipedal_leg_current_y, bipedal_positions_initialized,
                   pc, stance_start_y, sample, ret, cycles,
                   cycle_start_y, phase_log, phase_first, shift_count, shift_total>>

\* tripodGaitWalk
tripodGaitWalk(direction, num_cycles, pca1, pca2) ==
    engine = "tripod" /\ GaitWalk(direction, num_cycles, pca1, pca2)

TripodNext ==
    \/ \E d \in TripodDirections, pca1 \in BOOLEAN, pca2 \in BOOLEAN :
          ~walk.active /\ TripodGaitCycle(d, pca1, pca2)
    \/ \E d \in TripodDirections, n \in NumCycles, pca1 \in BOOLEAN, pca2 \in BOOLEAN :
          tripodGaitWalk(d, n, pca1, pca2)
    \/ WalkCallsCycle /\ TripodGaitCycle(walk.direction, walk.pca1, walk.pca2)
    \/ engine = "tripod" /\ GaitWalkReturn
    \/ TripodStanceSample
    \/ TripodSwingSample
    \/ TripodBusyWait
    \/ TripodCycleReturn
    \/ \E sl \in StepLengths, lh \in LiftHeights, du \in Durations,
          wp \in PointCounts, tp \in PointCounts :
          engine = "tripod" /\ setTripodConfig(sl, lh, du, du, wp, tp)

(***************************************************************************)
(* Direct calls of the kinematics functions and of the functions that take *)
(* a leg id.                                                               *)
(***************************************************************************)
\* leg ids a caller may pass: the valid ones and one on either side
LegIds == 0..7

\* what leg_origins[leg_number - 1] yields when the index is outside the
\* array: whatever lies next to the table
GarbageOrigins ==
    { [x |-> 0, y |-> 0, invert_hip |-> FALSE, invert_knee |-> FALSE],
      [x |-> cm(10), y |-> -cm(10), invert_hip |-> TRUE, invert_knee |-> TRUE] }

\* a target of leg 3 just inside the largest reach: r is one unit short of
\* L2 + L3 and the foot is a quarter of a centimetre below the hip, so that
\* D2 is not a square and D = sqrtf(D2) is rounded
NearMaxReach == <<leg_origins[3].x + L1 + L2 + L3 - 1, leg_origins[3].y, -160>>

\* targets of the direct calls: the base positions, the base positions one
\* test step forward and back, the far target of leg 3, and targets on the
\* x axis of leg 3's hip at z = 0, whose distance D is L2 + L3 or |L2 - L3|
\* exactly and one unit outside
KinTargets ==
    {base_positions[l] : l \in Legs}
    \cup {<<base_positions[l][1], base_positions[l][2] + d, base_positions[l][3]>> :
              l \in Legs, d \in {cm(4), -cm(4)}}
    \cup {<<cm(40), cm(0), -cm(24)>>}
    \cup {<<leg_origins[3].x + L1 + D, leg_origins[3].y, 0>> :
              D \in {L2 + L3, L2 + L3 + 1, L3 - L2, L3 - L2 - 1}}
    \cup {NearMaxReach}

NoCall ==
    [fn |-> "none", leg_number |-> 0, x |-> 0, y |-> 0, z |-> 0,
     direction |-> "TRIPOD_FORWARD", q_in |-> <<0, 0, 0>>, q_ok |-> TRUE,
     ret |-> FALSE, q |-> <<0, 0, 0>>, reads |-> << >>, sent |-> FALSE,
     target |-> <<0, 0, 0>>, acos_args |-> << >>, results |-> << >>,
     gait |-> "none", pca1 |-> TRUE, pca2 |-> TRUE, commands |-> << >>, writes |-> << >>]

\* One call debugLegIK(leg_number, x, y, z).  The table entry is read before
\* anything else; garbage is what that read yields for an index outside the
\* table.
debugLegIKCall(leg_number, x, y, z, garbage) ==
    LET leg == IF leg_number >= 1 /\ leg_number <= 6 THEN leg_origins[leg_number]
               ELSE garbage
        local_x == x - leg.x
        local_y == y - leg.y
        r == sqrtf(local_x * local_x + local_y * local_y) - L1
        h == -z
        D2 == r * r + h * h
        ik == computeLegIKCall(leg_number, x, y, z, <<0, 0, 0>>, TRUE)
    IN  IF D2 > (L2 + L3) * (L2 + L3)
        THEN [ret |-> FALSE, q |-> <<0, 0, 0>>, reads |-> <<leg_number>>]
        ELSE IF D2 < (L2 - L3) * (L2 - L3)
        THEN [ret |-> FALSE, q |-> <<0, 0, 0>>, reads |-> <<leg_number>>]
        ELSE [ik EXCEPT !.reads = <<leg_number>> \o @]

\* variant: a test step longer than any leg
step_forward_far == cm(40)

\* the test step of testAllBasePositions
step_forward == cm(4)

\* One call testAllBasePositions().  Its local table base_positions holds
\* the same values as the table of the gait files.  results lists, leg by
\* leg, what debugLegIK returned for the base position, the step forward and
\* the step back; all_ok is what the summary prints (PASSED or FAILED).
testAllBasePositionsCall ==
    LET debug(l, dy) ==
            debugLegIKCall(l, base_positions[l][1], base_positions[l][2] + dy,
                           base_positions[l][3], leg_origins[l]).ret
        steps == <<0, step_forward, -step_forward>>
        results == [l \in Legs |-> [k \in 1..3 |-> debug(l, steps[k])]]
    IN  [all_ok |-> \A l \in Legs : \A k \in 1..3 : results[l][k],
         results |-> results]

\* the functions below keep no state between calls, so a run makes one call
KinIdle == kin.fn = "none"

KinUnchanged ==
    UNCHANGED <<engine, cycle_steps, boot, timer, wave_config, wave_leg_current_y, wave_positions_initialized,
                bipedal_config, bipedal_leg_current_y, bipedal_positions_initialized,
                tripod_config, pc, stance_start_y, sample, ret, cycles,
                cycle_start_y, phase_log, phase_first, shift_count, shift_total,
                walk, ik_failed, sample_count>>

CallComputeLegIK(leg_number, t, q, q_ok) ==
    /\ engine = "kinematics"
    /\ KinIdle
    /\ \E out \in {computeLegIKCall(leg_number, t[1], t[2], t[3], q, q_ok)} :
           kin' = [NoCall EXCEPT !.fn = "computeLegIK", !.leg_number = leg_number,
                                 !.x = t[1], !.y = t[2], !.z = t[3],
                                 !.q_in = q, !.q_ok = q_ok,
                                 !.ret = out.ret, !.q = out.q, !.reads = out.reads,
                                 !.acos_args = out.acos_args]
    /\ KinUnchanged

CallDebugLegIK(leg_number, t, garbage) ==
    /\ engine = "kinematics"
    /\ KinIdle
    /\ \E out \in {debugLegIKCall(leg_number, t[1], t[2], t[3], garbage)} :
           kin' = [NoCall EXCEPT !.fn = "debugLegIK", !.leg_number = leg_number,
                                 !.x = t[1], !.y = t[2], !.z = t[3],
                                 !.ret = out.ret, !.q = out.q, !.reads = out.reads]
    /\ KinUnchanged

CallCalculateTargetPosition(leg_number, direction) ==
    /\ engine = "kinematics"
    /\ KinIdle
    /\ kin' = [NoCall EXCEPT !.fn = "calculateTargetPosition",
                             !.leg_number = leg_number, !.direction = direction,
                             !.ret = TRUE, !.reads = <<leg_number>>,
                             !.target = calculateTargetPosition(leg_number, direction)]
    /\ KinUnchanged

\* the joint angles an adapter is called with: what computeLegIK returns for
\* the targets above, the outputs of a caller before any call, and the
\* half turns either way
JointAngles ==
    UNION {{computeLegIKCall(l, t[1], t[2], t[3], <<0, 0, 0>>, TRUE).q :
                t \in {u \in KinTargets : computeLegIK(l, u[1], u[2], u[3])}} :
           l \in Legs}
    \cup QBefore
    \cup {<<M_PI, -M_PI, -M_PI>>, <<-M_PI, M_PI, M_PI>>}

\* the calls of PCA9685_SetServoAngle for the commands cmds, the handles
\* being ready
ServoWrites(cmds, conv) ==
    [k \in 1..Len(cmds) |->
        PCA9685_SetServoAngle(TRUE, cmds[k].channel, cmds[k].angle, conv)]

\* setLegJointsWithOffset of the gait file gait called with joint angles q
CallSetLegJointsWithOffset(gait, leg_number, q, pca1, pca2, conv) ==
    /\ engine = "kinematics"
    /\ KinIdle
    /\ LET cmds == IF gait = "wave"
                   THEN WaveSetLegJointsWithOffset(leg_number, q, pca1, pca2)
                   ELSE BipedalSetLegJointsWithOffset(leg_number, q, pca1, pca2)
       IN  kin' = [NoCall EXCEPT !.fn = "setLegJointsWithOffset", !.gait = gait,
                                 !.leg_number = leg_number, !.q_in = q,
                                 !.pca1 = pca1, !.pca2 = pca2,
                                 !.reads = IF leg_number < 1 \/ leg_number > 6 THEN << >>
                                           ELSE <<leg_number>>,
                                 !.sent = setLegJointsWithOffset(leg_number, pca1, pca2),
                                 !.commands = cmds,
                                 !.writes = ServoWrites(cmds, conv)]
    /\ KinUnchanged

\* setLegJoints called with joint angles q, as the tripod gait calls it
CallSetLegJoints(leg_number, q, conv) ==
    /\ engine = "kinematics"
    /\ KinIdle
    /\ LET cmds == setLegJointsCommands(leg_number, q)
       IN  kin' = [NoCall EXCEPT !.fn = "setLegJoints", !.gait = "tripod",
                                 !.leg_number = leg_number, !.q_in = q,
                                 !.sent = setLegJoints(leg_number),
                                 !.commands = cmds,
                                 !.writes = ServoWrites(cmds, conv)]
    /\ KinUnchanged

CallTestAllBasePositions ==
    /\ engine = "kinematics"
    /\ KinIdle
    /\ \E out \in {testAllBasePositionsCall} :
          kin' = [NoCall EXCEPT !.fn = "testAllBasePositions",
                                !.ret = out.all_ok, !.results = out.results]
    /\ KinUnchanged

KinNext ==
    \/ /\ engine = "kinematics" /\ KinIdle
       /\ \E l \in LegIds, t \in KinTargets, q \in QBefore, q_ok \in BOOLEAN :
             CallComputeLegIK(l, t, q, q_ok)
    \/ /\ engine = "kinematics" /\ KinIdle
       /\ \E l \in LegIds, t \in KinTargets, g \in GarbageOrigins :
             CallDebugLegIK(l, t, g)
    \/ /\ engine = "kinematics" /\ KinIdle
       /\ \E l \in Legs, d \in TripodDirections :
             CallCalculateTargetPosition(l, d)
    \/ /\ engine = "kinematics" /\ KinIdle
       /\ \E g \in {"wave", "bipedal"}, l \in LegIds, q \in JointAngles,
             pca1 \in BOOLEAN, pca2 \in BOOLEAN, conv \in NaNToUint16 :
             CallSetLegJointsWithOffset(g, l, q, pca1, pca2, conv)
    \/ /\ engine = "kinematics" /\ KinIdle
       /\ \E l \in LegIds, q \in JointAngles, conv \in NaNToUint16 :
             CallSetLegJoints(l, q, conv)
    \/ CallTestAllBasePositions
    \/ /\ engine = "kinematics" /\ KinIdle
       /\ \E sl \in StepLengths, lh \in LiftHeights, du \in Durations,
             wp \in PointCounts, tp \in PointCounts :
             setTripodConfig(sl, lh, du, du, wp, tp)

(***************************************************************************)
(* main.c: start-up and the main loop.                                     *)
(***************************************************************************)
\* the results of the five I2C transfers of one PCA9685_Init call, in order:
\* HAL_I2C_IsDeviceReady, then four HAL_I2C_Mem_Write; TRUE is HAL_OK
I2CResults == [1..5 -> BOOLEAN]

\* variant: the handle is never marked ready
PCA9685_Init_readyUnset(handle_ok, hi2c_ok, ready, i2c) ==
    IF ~handle_ok \/ ~hi2c_ok THEN [ret |-> FALSE, ready |-> ready]
    ELSE [ret |-> \A k \in 1..5 : i2c[k], ready |-> FALSE]

\* One call PCA9685_Init(handle, hi2c, address).  ready is handle->ready
\* before the call; the result gives the return value and handle->ready
\* after the call.
PCA9685_Init(handle_ok, hi2c_ok, ready, i2c) ==
    IF ~handle_ok \/ ~hi2c_ok THEN [ret |-> FALSE, ready |-> ready]
    ELSE IF \E k \in 1..5 : ~i2c[k] THEN [ret |-> FALSE, ready |-> FALSE]
    ELSE [ret |-> TRUE, ready |-> TRUE]

\* the servo channels setAllto90 and testStanding write on each controller:
\* hips, then knees, then ankles
MainChannels == <<0, 3, 6, 1, 4, 7, 2, 5, 8>>

\* the number of cycles main asks tripodGaitWalk for
MainNumCycles == 5

\* the PCA9685_SetServoAngle calls of setAllto90 and testStanding that reach
\* the bus: one per channel and controller, refused when the handle is not
\* ready
MainServoWrites(pca1_ready, pca2_ready) ==
    Cardinality({k \in 1..Len(MainChannels) :
                    PCA9685_SetServoAngle(pca1_ready, MainChannels[k], Deg(90), 0).written})
    + Cardinality({k \in 1..Len(MainChannels) :
                      PCA9685_SetServoAngle(pca2_ready, MainChannels[k], Deg(90), 0).written})

\* main() before its first statement: the handles are zero-initialised statics
BootStart ==
    [pc |-> "PCA9685_Init_1", pca1_ready |-> FALSE, pca2_ready |-> FALSE,
     led |-> FALSE, servo_writes |-> 0, gait_cycles |-> 0]

\* the runs that call a gait or kinematics function directly have no main()
NoBoot == [BootStart EXCEPT !.pc = "none"]

MainUnchanged ==
    UNCHANGED <<engine, cycle_steps, wave_config, wave_leg_current_y, wave_positions_initialized,
                bipedal_config, bipedal_leg_current_y, bipedal_positions_initialized,
                tripod_config, pc, stance_start_y, sample, ret, cycles,
                cycle_start_y, phase_log, phase_first, shift_count, shift_total,
                walk, ik_failed, sample_count, kin, timer>>

\* "if (!PCA9685_Init(&pca1, &hi2c1, PCA9685_ADDRESS_1)) { while (1) ..."
MainInitPca1(i2c) ==
    /\ boot.pc = "PCA9685_Init_1"
    /\ \E out \in {PCA9685_Init(TRUE, TRUE, boot.pca1_ready, i2c)} :
          boot' = [boot EXCEPT !.pca1_ready = out.ready,
                               !.pc = IF out.ret THEN "PCA9685_Init_2" ELSE "error_1"]
    /\ MainUnchanged

\* "if (!PCA9685_Init(&pca2, &hi2c2, PCA9685_ADDRESS_1)) { while (1) ..."
MainInitPca2(i2c) ==
    /\ boot.pc = "PCA9685_Init_2"
    /\ \E out \in {PCA9685_Init(TRUE, TRUE, boot.pca2_ready, i2c)} :
          boot' = [boot EXCEPT !.pca2_ready = out.ready,
                               !.pc = IF out.ret THEN "setAllto90" ELSE "error_2"]
    /\ MainUnchanged

\* one turn of an error loop: "HAL_GPIO_TogglePin(GPIOA, GPIO_PIN_5); HAL_Delay(50);"
MainErrorLoop ==
    /\ boot.pc \in {"error_1", "error_2"}
    /\ boot' = [boot EXCEPT !.led = ~@]
    /\ MainUnchanged

\* "setAllto90(&pca1, &pca2);"
MainSetAllto90 ==
    /\ boot.pc = "setAllto90"
    /\ boot' = [boot EXCEPT !.servo_writes = MainServoWrites(boot.pca1_ready, boot.pca2_ready),
                            !.pc = "testStanding"]
    /\ MainUnchanged

\* "testStanding(&pca1, &pca2);"
MainTestStanding ==
    /\ boot.pc = "testStanding"
    /\ boot' = [boot EXCEPT !.servo_writes = MainServoWrites(boot.pca1_ready, boot.pca2_ready),
                            !.pc = "tripodGaitWalk"]
    /\ MainUnchanged

\* "tripodGaitWalk(&pca1, &pca2, TRIPOD_FORWARD, 5);": the cycles keep no
\* state, every one returns true, so the walk runs all of them
MainTripodGaitWalk ==
    /\ boot.pc = "tripodGaitWalk"
    /\ boot' = [boot EXCEPT !.gait_cycles = MainNumCycles, !.pc = "setAllto90"]
    /\ MainUnchanged

MainNext ==
    \/ /\ engine = "main"
       /\ \E i2c \in I2CResults : MainInitPca1(i2c)
    \/ /\ engine = "main"
       /\ \E i2c \in I2CResults : MainInitPca2(i2c)
    \/ engine = "main" /\ MainErrorLoop
    \/ engine = "main" /\ MainSetAllto90
    \/ engine = "main" /\ MainTestStanding
    \/ engine = "main" /\ MainTripodGaitWalk

(***************************************************************************)
(* The control loop.                                                       *)
(***************************************************************************)
Init ==
    /\ engine \in {"wave", "bipedal", "tripod", "kinematics", "main"}
    /\ boot = IF engine = "main" THEN BootStart ELSE NoBoot
    /\ wave_config = DefaultWaveConfig
    /\ wave_leg_current_y = NoLegs
    /\ wave_positions_initialized = FALSE
    /\ bipedal_config = DefaultBipedalConfig
    /\ bipedal_leg_current_y = NoLegs
    /\ bipedal_positions_initialized = FALSE
    /\ tripod_config = DefaultTripodConfig
    /\ pc = IdlePc
    /\ stance_start_y = NoLegs
    /\ sample = << >>
    /\ ret = "none"
    /\ cycles = 0
    /\ cycle_start_y = NoLegs
    /\ phase_log = << >>
    /\ phase_first = << >>
    /\ shift_count = NoLegs
    /\ shift_total = NoLegs
    /\ walk = NoWalk
    /\ ik_failed = FALSE
    /\ sample_count = 0
    /\ kin = NoCall
    /\ timer = NoTimer
    /\ cycle_steps = NoSteps

Next == WaveNext \/ BipedalNext \/ TripodNext \/ KinNext \/ MainNext

Spec == Init /\ [][Next]_vars

(***************************************************************************)
(* Properties.                                                             *)
(***************************************************************************)
LastPhase == phase_log[Len(phase_log)]

\* the last executed loop iteration belongs to a phase of kind ph
InPhase(ph) == Len(phase_log) > 0 /\ sample # << >> /\ LastPhase.phase = ph

RoleLegs(s, role) == {s[k].leg : k \in {j \in 1..Len(s) : s[j].role = role}}
EventOf(s, l) == s[CHOOSE k \in 1..Len(s) : s[k].leg = l]
Raised(s) == {s[k].leg : k \in {j \in 1..Len(s) : s[j].z # base_positions[s[j].leg][3]}}

\* the last iteration of a swing loop of the wave or bipedal gait has just run
SwingEnded == pc.fn = "stance" /\ pc.i = 0 /\ InPhase("swing")
\* the last iteration of a stance-shift loop of the wave or bipedal gait has just run
ShiftEnded == pc.fn \in {"swing", "check"} /\ pc.i = 0 /\ InPhase("stance")

\* C1: a wave cycle that starts with every tracked offset at its base y ends
\* with every tracked offset at its base y again.
C1_WaveClosure ==
    (engine = "wave" /\ pc.fn = "check" /\ cycle_start_y = BaseY)
        => wave_leg_current_y = BaseY

\* C2: a bipedal cycle that starts with every tracked offset at its base y
\* ends with every tracked offset at its base y again.
C2_BipedalClosure ==
    (engine = "bipedal" /\ pc.fn = "check" /\ cycle_start_y = BaseY)
        => bipedal_leg_current_y = BaseY

\* C3: in a wave cycle the legs enter swing in the order 1,2,3,4,5,6, one leg
\* at a time, and every swing is followed at once by one stance shift of all
\* six legs.
WaveExpectedPhase(k) ==
    IF k % 2 = 1 THEN [phase |-> "swing", legs |-> {(k + 1) \div 2}]
    ELSE [phase |-> "stance", legs |-> Legs]

C3_WaveOrder ==
    engine = "wave" =>
        /\ Len(phase_log) <= 12
        /\ \A k \in 1..Len(phase_log) : phase_log[k] = WaveExpectedPhase(k)
        /\ pc.fn = "check" => Len(phase_log) = 12
        /\ InPhase("swing") =>
              /\ RoleLegs(sample, "swing") = LastPhase.legs
              /\ RoleLegs(sample, "stance") = {}
        /\ InPhase("stance") =>
              /\ RoleLegs(sample, "stance") = Legs
              /\ RoleLegs(sample, "swing") = {}

C3_Witness ==
    /\ engine = "wave" /\ pc.fn = "check" /\ Len(phase_log) = 12
    /\ wave_config.step_length > 0

\* C4: in every sample of a tripod cycle the swing set and the stance set
\* partition the six legs: phase 1 swings 1,4,5 while 2,3,6 stance, phase 2
\* swings 2,3,6 while 1,4,5 stance.
C4_TripodPartition ==
    (engine = "tripod" /\ sample # << >>) =>
        /\ RoleLegs(sample, "swing") \cup RoleLegs(sample, "stance") = Legs
        /\ RoleLegs(sample, "swing") \cap RoleLegs(sample, "stance") = {}
        /\ pc.step = 0 => RoleLegs(sample, "swing") = {1, 4, 5}
        /\ pc.step = 1 /\ pc.i > 0 => RoleLegs(sample, "swing") = {2, 3, 6}

\* C5 as stated: over a bipedal swing window the commanded lateral position
\* of each of the four non-swinging legs changes.
C5_OthersShiftDuringSwing ==
    (engine = "bipedal" /\ SwingEnded) =>
        \A l \in Legs \ LastPhase.legs :
            EventOf(sample, l).y # EventOf(phase_first, l).y

\* C5 amended: at every sample of a bipedal swing window each of the four
\* non-swinging legs is commanded at its base x, its tracked lateral offset
\* and its base z, the same position as at the first sample of the window.
C5_OthersHoldDuringSwing ==
    (engine = "bipedal" /\ InPhase("swing")) =>
        /\ Cardinality(RoleLegs(sample, "hold")) = 4
        /\ RoleLegs(sample, "hold") = Legs \ LastPhase.legs
        /\ \A l \in RoleLegs(sample, "hold") :
              /\ EventOf(sample, l).x = base_positions[l][1]
              /\ EventOf(sample, l).y = bipedal_leg_current_y[l]
              /\ EventOf(sample, l).y = EventOf(phase_first, l).y
              /\ EventOf(sample, l).z = base_positions[l][3]

C5_Witness ==
    /\ engine = "bipedal" /\ SwingEnded /\ pc.step = 1
    /\ bipedal_config.step_length > 0
    /\ bipedal_leg_current_y[1] # BaseY[1]

\* C6: in a bipedal cycle the pairs {1,4}, {2,5}, {3,6} swing in that order,
\* both legs of a pair in the same samples, and every swing is followed at
\* once by one stance shift of all six legs by step_length / 3.
BipedalExpectedPhase(k) ==
    IF k % 2 = 1
    THEN [phase |-> "swing", legs |-> {(k + 1) \div 2, (k + 1) \div 2 + 3}]
    ELSE [phase |-> "stance", legs |-> Legs]

C6_BipedalOrder ==
    engine = "bipedal" =>
        /\ Len(phase_log) <= 6
        /\ \A k \in 1..Len(phase_log) : phase_log[k] = BipedalExpectedPhase(k)
        /\ pc.fn = "check" => Len(phase_log) = 6
        /\ InPhase("swing") =>
              /\ RoleLegs(sample, "swing") = LastPhase.legs
              /\ RoleLegs(sample, "stance") = {}
        /\ InPhase("stance") =>
              /\ RoleLegs(sample, "stance") = Legs
              /\ RoleLegs(sample, "swing") = {}
        /\ ShiftEnded =>
              \A l \in Legs :
                 /\ 3 * (bipedal_leg_current_y[l] - stance_start_y[l])
                       = bipedal_config.step_length
                 /\ EventOf(sample, l).y = bipedal_leg_current_y[l]
                 /\ EventOf(phase_first, l).y = stance_start_y[l]

C6_Witness ==
    /\ engine = "bipedal" /\ pc.fn = "check" /\ Len(phase_log) = 6
    /\ bipedal_config.step_length > 0

\* C7: over one wave (bipedal) cycle the tracked offset of every leg receives
\* exactly 6 (3) stance shifts of step_length / 6 (step_length / 3) each, which
\* sum to one step_length.
GroupCount == IF engine = "wave" THEN 6 ELSE 3
StepLength == IF engine = "wave" THEN wave_config.step_length
              ELSE bipedal_config.step_length

C7_StanceShiftSum ==
    (engine \in {"wave", "bipedal"} /\ pc.fn # "idle") =>
        \A l \in Legs :
            /\ GroupCount * shift_total[l] = shift_count[l] * StepLength
            /\ pc.fn = "check" =>
                  /\ shift_count[l] = GroupCount
                  /\ shift_total[l] = StepLength

C7_Witness ==
    /\ engine = "wave" /\ pc.fn = "check" /\ cycles = 2
    /\ wave_config.step_length = cm(6)
    /\ shift_total[6] = cm(6)

\* C8 as stated: a tripod stance phase displaces the foot by step_length / 2.
StanceMoved ==
    Abs(sample[1].x - phase_first[1].x) + Abs(sample[1].y - phase_first[1].y)

TripodStanceEnded == engine = "tripod" /\ pc.fn = "swing" /\ pc.i = 0
Translations == {"TRIPOD_FORWARD", "TRIPOD_BACKWARD", "TRIPOD_LEFT", "TRIPOD_RIGHT"}

C9_SixLegsPerSample ==
    (engine \in {"wave", "bipedal"} /\ sample # << >>) =>
        /\ Len(sample) = 6
        /\ \A l \in Legs : Cardinality({k \in 1..6 : sample[k].leg = l}) = 1
        /\ \A k \in 1..6 : sample[k].role \in {"swing", "hold", "stance"}
        /\ Raised(sample) \subseteq RoleLegs(sample, "swing")
        /\ Cardinality(RoleLegs(sample, "swing")) <= (IF engine = "wave" THEN 1 ELSE 2)
        /\ InPhase("swing") => RoleLegs(sample, "swing") = LastPhase.legs
        /\ InPhase("stance") => Raised(sample) = {}

C9_Witness ==
    /\ engine = "wave" /\ InPhase("swing")
    /\ Raised(sample) = {4}
    /\ RoleLegs(sample, "hold") = Legs \ {4}

\* C10: the direction argument of the wave and bipedal gaits selects the
\* swing displacement: FORWARD ends the swing at base_y - step_length,
\* BACKWARD at base_y + step_length, LEFT at base_x + step_length and RIGHT
\* at base_x - step_length.
DirectedTarget(l, d, sl) ==
    CASE d \in {"WAVE_FORWARD", "BIPEDAL_FORWARD"} ->
            <<base_positions[l][1], base_positions[l][2] - sl>>
      [] d \in {"WAVE_BACKWARD", "BIPEDAL_BACKWARD"} ->
            <<base_positions[l][1], base_positions[l][2] + sl>>
      [] d \in {"WAVE_LEFT", "BIPEDAL_LEFT"} ->
            <<base_positions[l][1] + sl, base_positions[l][2]>>
      [] d \in {"WAVE_RIGHT", "BIPEDAL_RIGHT"} ->
            <<base_positions[l][1] - sl, base_positions[l][2]>>

C10_DirectionSelectsSwing ==
    (engine \in {"wave", "bipedal"} /\ SwingEnded) =>
        \A l \in LastPhase.legs :
            <<EventOf(sample, l).x, EventOf(sample, l).y>>
                = DirectedTarget(l, pc.direction, StepLength)

\* C11: the tripod swing target of leg n is its base position with
\* y - step_length for FORWARD, y + step_length for BACKWARD,
\* x + step_length for LEFT, x - step_length for RIGHT; for TURN_LEFT
\* x + step_length on the front legs 1, 2 and x - step_length on the rear
\* legs 5, 6, for TURN_RIGHT the opposite signs, the middle legs 3, 4 at
\* base in both turns; z is the base z in every case.
TargetOffsetX(n, d) ==
    CASE d = "TRIPOD_LEFT" -> 1
      [] d = "TRIPOD_RIGHT" -> -1
      [] d = "TRIPOD_TURN_LEFT" -> (IF n \in {1, 2} THEN 1 ELSE IF n \in {5, 6} THEN -1 ELSE 0)
      [] d = "TRIPOD_TURN_RIGHT" -> (IF n \in {1, 2} THEN -1 ELSE IF n \in {5, 6} THEN 1 ELSE 0)
      [] OTHER -> 0

TargetOffsetY(d) ==
    CASE d = "TRIPOD_FORWARD" -> -1
      [] d = "TRIPOD_BACKWARD" -> 1
      [] OTHER -> 0

ExpectedTarget(n, d) ==
    <<base_positions[n][1] + TargetOffsetX(n, d) * tripod_config.step_length,
      base_positions[n][2] + TargetOffsetY(d) * tripod_config.step_length,
      -cm(24)>>

\* the last iteration of the tripod swing loop has just run
TripodSwingEnded ==
    engine = "tripod" /\ pc.fn = "check" /\ InPhase("swing")

C11_TripodTarget ==
    /\ kin.fn = "calculateTargetPosition" =>
          kin.target = ExpectedTarget(kin.leg_number, kin.direction)
    /\ TripodSwingEnded =>
          <<sample[1].x, sample[1].y, sample[1].z>>
              = ExpectedTarget(sample[1].leg, pc.direction)

C11_Witness ==
    /\ kin.fn = "calculateTargetPosition"
    /\ kin.leg_number = 5
    /\ kin.direction = "TRIPOD_TURN_LEFT"
    /\ tripod_config.step_length = cm(18)
    /\ kin.target = <<cm(0), cm(15), -cm(24)>>

\* C12: for every point count >= 1 the last sample of a swing phase targets
\* exactly the swing target in x and y at the base z, and the first sample
\* targets the swing start position at the base z; a tripod FORWARD swing of
\* leg 1 with step_length 6 ends at (18, -21, -24).
FirstSwingSampleDone == pc.fn = "swing" /\ pc.i = 1 /\ InPhase("swing")

TrackedY == IF engine = "wave" THEN wave_leg_current_y ELSE bipedal_leg_current_y

C12_SwingEndpoints ==
    /\ (engine \in {"wave", "bipedal"} /\ SwingEnded) =>
          \A l \in LastPhase.legs :
             /\ EventOf(sample, l).x = base_positions[l][1]
             /\ EventOf(sample, l).y = base_positions[l][2] - StepLength
             /\ EventOf(sample, l).z = base_positions[l][3]
    /\ (engine \in {"wave", "bipedal"} /\ FirstSwingSampleDone) =>
          \A l \in LastPhase.legs :
             /\ EventOf(sample, l).x = base_positions[l][1]
             /\ EventOf(sample, l).y = TrackedY[l]
             /\ EventOf(sample, l).z = base_positions[l][3]
    /\ TripodSwingEnded =>
          /\ <<sample[1].x, sample[1].y>>
                = <<ExpectedTarget(sample[1].leg, pc.direction)[1],
                    ExpectedTarget(sample[1].leg, pc.direction)[2]>>
          /\ sample[1].z = base_positions[sample[1].leg][3]
    /\ (engine = "tripod" /\ FirstSwingSampleDone) =>
          <<sample[1].x, sample[1].y, sample[1].z>> = base_positions[sample[1].leg]
    /\ (engine = "tripod" /\ tripod_config.step_length = cm(6)) =>
          LET e == TripodSwingEvents(1, "TRIPOD_FORWARD", tripod_config.swing_points)[1]
          IN  <<e.x, e.y, e.z>> = <<cm(18), -cm(21), -cm(24)>>

C12_Witness ==
    /\ engine = "wave" /\ SwingEnded
    /\ LastPhase.legs = {2}
    /\ wave_config.step_points = 4
    /\ EventOf(sample, 2).y = -cm(21)
    /\ EventOf(sample, 2).z = -cm(24)
    /\ EventOf(sample, 2).sent

\* C13: a walk called with num_cycles = n calls the cycle function one call
\* after another, at most n times; it returns true after exactly n calls
\* that all returned true (after none when n <= 0), and it returns false
\* right after the first call that returned false, without a further call.
WalkCount == IF walk.num_cycles > 0 THEN walk.num_cycles ELSE 0

C13_WalkLoop ==
    /\ walk.calls <= WalkCount
    /\ walk.active =>
          /\ walk.ret = "running"
          /\ walk.cycle <= WalkCount
          /\ walk.calls = walk.cycle + (IF pc.fn = "idle" THEN 0 ELSE 1)
    /\ walk.ret = "true" =>
          /\ ~walk.active
          /\ walk.calls = WalkCount
          /\ walk.cycle = WalkCount
          /\ WalkCount > 0 => ret = "true"
    /\ walk.ret = "false" =>
          /\ ~walk.active
          /\ ret # "true"
          /\ walk.calls = walk.cycle + 1

C13_Witness ==
    /\ engine = "tripod"
    /\ walk.ret = "true"
    /\ walk.num_cycles = 2
    /\ walk.calls = 2
    /\ cycles = 2

\* C14: in the wave and bipedal gaits, when IK fails for a leg at a sample no
\* actuator command is issued for that leg at that sample, the other legs of
\* the sample are still commanded, every later sample and phase of the
\* cycle is still executed, and the cycle returns true.
HandleOf(l) == IF l % 2 = 1 THEN pc.pca1 ELSE pc.pca2

CycleSamples ==
    IF engine = "wave"
    THEN 6 * ((wave_config.step_points + 1) + (wave_stance_points + 1))
    ELSE 3 * ((bipedal_config.step_points + 1) + (bipedal_stance_points + 1))

TripodSwingRan ==
    /\ InPhase("swing")
    /\ sample_count = (tripod_config.stance_points + 1) + (tripod_config.swing_points + 1)

C15_TripodSwingNotAborted ==
    (engine = "tripod" /\ pc.fn = "check" /\ pc.pca1) =>
        \A i \in 0..tripod_config.swing_points :
            TripodSwingEvents(TripodLeg, pc.direction, i)[1].sent => TripodSwingRan

\* C16: a gait cycle function returns false when an error occurred while
\* the cycle executed (an IK call failed) and returns true only when the
\* cycle was carried out without error.
CycleReturned == pc.fn = "idle" /\ ret \in {"true", "false"}

C16_CycleReportsFailure ==
    CycleReturned => (ret = "false" <=> ik_failed)

\* C17: in the wave and bipedal gaits, when the handle of one body side is
\* NULL (pca1: legs 1, 3, 5; pca2: legs 2, 4, 6) no servo write is issued
\* for the legs of that side, the legs of the other side are still commanded
\* at every sample, and the cycle runs to its end and returns true.
C17_NullHandleSkipsSide ==
    engine \in {"wave", "bipedal"} =>
        /\ pc.fn # "idle" =>
              \A k \in 1..Len(sample) :
                 sample[k].sent <=> (sample[k].ik /\ HandleOf(sample[k].leg))
        /\ (pc.fn = "check" /\ ~(pc.pca1 /\ pc.pca2)) =>
              sample_count = CycleSamples
        /\ CycleReturned => ret = "true"

C17_Witness ==
    /\ engine = "bipedal" /\ pc.fn = "check"
    /\ ~pc.pca1 /\ pc.pca2
    /\ \A l \in {1, 3, 5} : ~EventOf(sample, l).sent
    /\ \A l \in {2, 4, 6} : EventOf(sample, l).sent

\* C18: a function that is given a leg id outside 1..6 fails before any
\* partial computation: it reads no entry of a per-leg table, writes no
\* output, issues no actuator command and reports failure.
C18_InvalidLegIdFailsFast ==
    (kin.fn # "none" /\ (kin.leg_number < 1 \/ kin.leg_number > 6)) =>
        /\ kin.reads = << >>
        /\ kin.q = kin.q_in
        /\ ~kin.sent
        /\ ~kin.ret

\* C19: when computeLegIK reports an unreachable target it returns false and
\* none of the three outputs q1, q2, q3 has been modified by the call.
C19_NoPartialResult ==
    (kin.fn = "computeLegIK" /\ ~kin.ret) => kin.q = kin.q_in

\* C20: for a valid leg id and non-null outputs computeLegIK returns true
\* exactly when |L2 - L3| <= D <= L2 + L3, where D = sqrt(r^2 + h^2), r is
\* the planar distance from the leg origin to the target minus L1 and
\* h = -z; D equal to either bound succeeds, D outside fails, and leg 3 with
\* target (40, 0, -24) fails.
PlanarDistance(l, x, y) ==
    sqrtf((x - leg_origins[l].x) * (x - leg_origins[l].x)
          + (y - leg_origins[l].y) * (y - leg_origins[l].y))

ReachSquared(l, x, y, z) ==
    (PlanarDistance(l, x, y) - L1) * (PlanarDistance(l, x, y) - L1) + z * z

C20_ReachCondition ==
    (kin.fn = "computeLegIK" /\ kin.leg_number \in Legs /\ kin.q_ok) =>
        LET DD == ReachSquared(kin.leg_number, kin.x, kin.y, kin.z)
        IN  /\ kin.ret <=> /\ (L3 - L2) * (L3 - L2) <= DD
                           /\ DD <= (L2 + L3) * (L2 + L3)
            /\ (kin.leg_number = 3 /\ <<kin.x, kin.y, kin.z>> = <<cm(40), cm(0), -cm(24)>>)
                  => ~kin.ret

C20_Witness ==
    /\ kin.fn = "computeLegIK" /\ kin.leg_number = 3 /\ kin.q_ok
    /\ <<kin.x, kin.y, kin.z>> = <<leg_origins[3].x + L1 + L2 + L3, leg_origins[3].y, 0>>
    /\ ReachSquared(3, kin.x, kin.y, kin.z) = (L2 + L3) * (L2 + L3)
    /\ kin.ret

\* C21: every value passed to acosf inside computeLegIK, the argument for
\* gamma and the argument for beta, lies in [-1, 1] when acosf is applied.
C21_AcosArgumentsClamped ==
    (kin.fn = "computeLegIK" /\ kin.ret) =>
        /\ Len(kin.acos_args) = 2
        /\ \A k \in 1..2 : kin.acos_args[k] >= -CosScale /\ kin.acos_args[k] <= CosScale
        /\ \A k \in 1..3 : ~isnan(kin.q[k])

\* the leg on the other side of the body in the same row
MirrorLeg(l) == IF l % 2 = 1 THEN l + 1 ELSE l - 1

\* C22: mirror symmetry.  A call computeLegIK for a leg at (x, y, z) and the
\* call for the leg of the other side at (-x, y, z) have the same reach
\* distance D, the same result, and knee and ankle angles of equal magnitude
\* (up to the resolution of the model: a hundredth of a centimetre, half a
\* degree).
C22_MirrorSymmetry ==
    (kin.fn = "computeLegIK" /\ kin.q_ok /\ kin.leg_number \in Legs) =>
        LET m == MirrorLeg(kin.leg_number)
            other == computeLegIKCall(m, -kin.x, kin.y, kin.z, kin.q_in, TRUE)
            D == sqrtf(ReachSquared(kin.leg_number, kin.x, kin.y, kin.z))
            Dm == sqrtf(ReachSquared(m, -kin.x, kin.y, kin.z))
        IN  /\ Abs(D - Dm) <= UnitsPerCm \div 100
            /\ other.ret = kin.ret
            /\ (kin.ret /\ ~isnan(kin.q[2]) /\ ~isnan(other.q[2])) =>
                   /\ Abs(Abs(kin.q[2]) - Abs(other.q[2])) <= 5
                   /\ Abs(Abs(kin.q[3]) - Abs(other.q[3])) <= 5

\* sine of an angle a in 0..M_PI as a fraction of CosScale:
\* 4 p / (5 * 90^2 * 4 - p) with p = a (180 - a), exact to 0.002
SinHalfTurn(a) ==
    LET p == a * (M_PI - a)
    IN  ((p \div 100) * (4 * CosScale)) \div ((5 * (M_PI \div 2) * (M_PI \div 2) - p) \div 100)

\* sine and cosine of any angle between -3 and 3 half turns
Sine(a) ==
    LET b == (a + 6 * M_PI) % (2 * M_PI)
    IN  IF b <= M_PI THEN SinHalfTurn(b) ELSE -SinHalfTurn(b - M_PI)

Cosine(a) == Sine(a + M_PI \div 2)

\* Forward kinematics of leg l: the foot position the joint angles
\* q = <<hip, knee, ankle>> put the foot at.  The hip turns the leg plane
\* about the hip origin (a right leg's hip angle is measured from the
\* opposite direction), the thigh L2 rises by the knee angle from the
\* horizontal at distance L1 from the hip axis, and the shin L3 encloses the
\* angle -ankle with the thigh.
ForwardKinematics(l, q) ==
    LET a1 == IF leg_origins[l].invert_hip THEN q[1] + M_PI ELSE q[1]
        shin == q[2] - (q[3] + M_PI)
        r == (L2 * Cosine(q[2]) + L3 * Cosine(shin)) \div CosScale
        h == -((L2 * Sine(q[2]) + L3 * Sine(shin)) \div CosScale)
    IN  << leg_origins[l].x + ((L1 + r) * Cosine(a1)) \div CosScale,
           leg_origins[l].y + ((L1 + r) * Sine(a1)) \div CosScale,
           -h >>

\* the tolerance of the round trip: the angles of the model are exact to
\* half a degree, which moves a foot 30 cm away by a quarter of a centimetre
RoundTripTolerance == UnitsPerCm \div 2

\* C23: IK round trip.  After every call computeLegIK that returns true,
\* forward kinematics of the returned angles gives back the target (x, y, z)
\* within the tolerance.
C23_IKRoundTrip ==
    (kin.fn = "computeLegIK" /\ kin.ret) =>
        /\ \A k \in 1..3 : ~isnan(kin.q[k])
        /\ LET f == ForwardKinematics(kin.leg_number, kin.q)
           IN  /\ Abs(f[1] - kin.x) <= RoundTripTolerance
               /\ Abs(f[2] - kin.y) <= RoundTripTolerance
               /\ Abs(f[3] - kin.z) <= RoundTripTolerance

\* the base position of leg l displaced by dy along y
TestTarget(l, dy) == <<base_positions[l][1], base_positions[l][2] + dy, base_positions[l][3]>>

\* C24: for each of the six legs the base position and the base position
\* displaced by +4 cm and by -4 cm along y satisfy the reachability
\* condition, debugLegIK returns true for each of them, and
\* testAllBasePositions finds every test passed.
C24_BasePositionsReachable ==
    /\ kin.fn = "testAllBasePositions" =>
           /\ kin.ret
           /\ \A l \in Legs : kin.results[l] = <<TRUE, TRUE, TRUE>>
           /\ \A l \in Legs : \A dy \in {0, cm(4), -cm(4)} :
                  LET t == TestTarget(l, dy)
                      DD == ReachSquared(l, t[1], t[2], t[3])
                  IN  (L3 - L2) * (L3 - L2) <= DD /\ DD <= (L2 + L3) * (L2 + L3)
    /\ (/\ kin.fn = "debugLegIK"
        /\ kin.leg_number \in Legs
        /\ \E dy \in {0, cm(4), -cm(4)} :
               <<kin.x, kin.y, kin.z>> = TestTarget(kin.leg_number, dy))
         => kin.ret

C24_Witness ==
    /\ kin.fn = "testAllBasePositions"
    /\ kin.ret
    /\ \A l \in Legs : Len(kin.results[l]) = 3

\* what a call of a set...Config function leaves alone besides its own
\* configuration record
ConfigFrame ==
    UNCHANGED <<wave_leg_current_y, wave_positions_initialized,
                bipedal_leg_current_y, bipedal_positions_initialized,
                pc, stance_start_y, sample, ret, cycles>>

\* a stance-shift loop of the wave or bipedal gait has run its last iteration
ShiftDone == InPhase("stance") /\ pc.fn \in {"swing", "check"}

\* the cycle in progress works with the stored configuration: the swing
\* target and the stance shift are computed from the stored step length
ConfigUsed ==
    /\ (engine \in {"wave", "bipedal"} /\ SwingEnded) =>
          \A l \in LastPhase.legs :
              EventOf(sample, l).y = base_positions[l][2] - StepLength
    /\ (engine \in {"wave", "bipedal"} /\ ShiftDone) =>
          \A l \in Legs :
              GroupCount * (EventOf(sample, l).y - EventOf(phase_first, l).y) = StepLength
    /\ TripodSwingEnded =>
          <<sample[1].x, sample[1].y, sample[1].z>>
              = ExpectedTarget(sample[1].leg, pc.direction)
    /\ (TripodStanceEnded /\ pc.direction \in Translations) =>
          StanceMoved = tripod_config.step_length

CycleEntered == pc.fn = "idle" /\ pc'.fn # "idle"
SubPhaseEnds ==
    \/ engine = "wave" /\ pc.fn = "swing" /\ pc.i = wave_config.step_points
    \/ engine = "wave" /\ pc.fn = "stance" /\ pc.i = wave_stance_points
    \/ engine = "bipedal" /\ pc.fn = "swing" /\ pc.i = bipedal_config.step_points
    \/ engine = "bipedal" /\ pc.fn = "stance" /\ pc.i = bipedal_stance_points

\* C26: the tracked offsets of a gait are set to the base y-coordinates once,
\* on entry of the gait's first cycle; a later cycle or walk call leaves them
\* as the previous cycle left them; apart from that they change only in the
\* last iteration of a swing or of a stance shift.
C26_LazyInitOnce ==
    [][ /\ wave_positions_initialized => wave_positions_initialized'
        /\ bipedal_positions_initialized => bipedal_positions_initialized'
        /\ (engine = "wave" /\ CycleEntered) =>
               /\ wave_positions_initialized'
               /\ wave_leg_current_y' = IF wave_positions_initialized
                                        THEN wave_leg_current_y ELSE BaseY
               /\ cycle_start_y' = wave_leg_current_y'
        /\ (engine = "bipedal" /\ CycleEntered) =>
               /\ bipedal_positions_initialized'
               /\ bipedal_leg_current_y' = IF bipedal_positions_initialized
                                           THEN bipedal_leg_current_y ELSE BaseY
               /\ cycle_start_y' = bipedal_leg_current_y'
        /\ wave_leg_current_y' # wave_leg_current_y =>
               \/ CycleEntered /\ ~wave_positions_initialized
               \/ SubPhaseEnds
        /\ bipedal_leg_current_y' # bipedal_leg_current_y =>
               \/ CycleEntered /\ ~bipedal_positions_initialized
               \/ SubPhaseEnds
      ]_vars

\* the second cycle of a walk starts with the offsets the first one left,
\* which are not the base positions
C26_Witness ==
    /\ engine = "wave"
    /\ walk.active /\ walk.calls = 2
    /\ pc.fn = "swing" /\ pc.step = 0 /\ pc.i = 0
    /\ wave_leg_current_y # BaseY
    /\ cycle_start_y = wave_leg_current_y

\* C27: whatever joint angles IK returns, every servo command an adapter
\* issues carries an angle within [0, 180] degrees, and the count
\* PCA9685_SetServoAngle writes for it lies within
\* [SERVO_PWM_MIN, SERVO_PWM_MAX].
C27_ServoCommandsInRange ==
    kin.fn \in {"setLegJointsWithOffset", "setLegJoints"} =>
        \A k \in 1..Len(kin.commands) :
            /\ ~isnan(kin.commands[k].angle)
            /\ kin.commands[k].angle >= 0
            /\ kin.commands[k].angle <= Deg(180)
            /\ kin.writes[k].written =>
                   /\ kin.writes[k].pwm >= SERVO_PWM_MIN
                   /\ kin.writes[k].pwm <= SERVO_PWM_MAX

\* the mapping of the hardware table of main.c
ExpectedController(n) == IF n % 2 = 1 THEN "pca1" ELSE "pca2"
ExpectedBaseChannel(n) == 3 * ((n - 1) \div 2)
ExpectedHipOffset(n) == <<375, -375, 0, 0, -375, 375>>[n]

\* the commands cmds drive leg n as the table says; q are the joint angles
MappedAsTabled(n, q, cmds) ==
    /\ Len(cmds) = 3
    /\ \A k \in 1..3 :
          /\ cmds[k].pca = ExpectedController(n)
          /\ cmds[k].channel = ExpectedBaseChannel(n) + k - 1
    /\ cmds[1].angle = ServoLimit(AddAngle(Deg(90), AddAngle(q[1], ExpectedHipOffset(n))))

C29_RightLegsMirrored ==
    (kin.fn \in {"setLegJointsWithOffset", "setLegJoints"} /\ kin.sent) =>
        LET n == kin.leg_number
            q == kin.q_in
            joint(k) == IF n % 2 = 0 THEN NegAngle(q[k]) ELSE q[k]
        IN  /\ \A k \in 2..3 :
                  kin.commands[k].angle = ServoLimit(AddAngle(Deg(90), joint(k)))
            /\ kin.fn = "setLegJointsWithOffset" =>
                  WaveSetLegJointsWithOffset(n, q, kin.pca1, kin.pca2)
                      = BipedalSetLegJointsWithOffset(n, q, kin.pca1, kin.pca2)

\* front and rear position of leg n for direction d: the swing target, and
\* the position as far from base on the other side
FrontPosition(n, d) == <<ExpectedTarget(n, d)[1], ExpectedTarget(n, d)[2]>>
RearPosition(n, d) ==
    <<2 * base_positions[n][1] - ExpectedTarget(n, d)[1],
      2 * base_positions[n][2] - ExpectedTarget(n, d)[2]>>

\* C30: in a tripod cycle a leg's swing carries the foot from the rear
\* position to the front position (FORWARD: from base_y + step_length to
\* base_y - step_length) and its stance slides the foot from the front
\* position back to the rear position: the stance starts where the swing
\* ended and moves the opposite way.
C30_TripodSwingStanceEnds ==
    /\ (TripodSwingEnded /\ pc.direction \in Translations) =>
          /\ <<phase_first[1].x, phase_first[1].y>>
                = RearPosition(sample[1].leg, pc.direction)
          /\ <<sample[1].x, sample[1].y>> = FrontPosition(sample[1].leg, pc.direction)
    /\ (TripodStanceEnded /\ pc.direction \in Translations) =>
          /\ <<phase_first[1].x, phase_first[1].y>>
                = FrontPosition(sample[1].leg, pc.direction)
          /\ <<sample[1].x, sample[1].y>> = RearPosition(sample[1].leg, pc.direction)

\* main() is in one of its two error loops
InErrorLoop == boot.pc \in {"error_1", "error_2"}

\* main() has passed both initialisations
InMainLoop == boot.pc \in {"setAllto90", "testStanding", "tripodGaitWalk"}

\* C31: a PCA9685_Init call of main() that fails is fatal: main() enters the
\* error loop with the handle not ready, stays there for ever, and in the
\* error loop no servo command has been issued and no gait cycle started;
\* main() reaches its main loop, where the servo commands and the gait cycles
\* are, only with both handles ready.
C31_InitFailureFatal ==
    /\ [](engine = "main" =>
            /\ InErrorLoop => boot.servo_writes = 0 /\ boot.gait_cycles = 0
            /\ boot.pc = "error_1" => ~boot.pca1_ready
            /\ boot.pc = "error_2" => ~boot.pca2_ready
            /\ (InMainLoop \/ boot.servo_writes > 0 \/ boot.gait_cycles > 0) =>
                  boot.pca1_ready /\ boot.pca2_ready)
    /\ [][InErrorLoop => boot'.pc = boot.pc]_vars

C31_Witness ==
    /\ engine = "main" /\ boot.pc = "error_2" /\ boot.led
    /\ boot.pca1_ready /\ ~boot.pca2_ready

\* point count and lift height of the swing loop of the running gait
SwingPoints ==
    IF engine = "wave" THEN wave_config.step_points
    ELSE IF engine = "bipedal" THEN bipedal_config.step_points
    ELSE tripod_config.swing_points

SwingLift ==
    IF engine = "wave" THEN wave_config.lift_height
    ELSE IF engine = "bipedal" THEN bipedal_config.lift_height
    ELSE tripod_config.lift_height

\* an iteration of a swing loop has just run; SwingIndex is its index i
SwingSampled ==
    /\ InPhase("swing")
    /\ \/ pc.fn = "swing" /\ pc.i >= 1
       \/ SwingEnded
       \/ TripodSwingEnded

SwingIndex == IF pc.fn = "swing" THEN pc.i - 1 ELSE SwingPoints

\* C32: during a swing the swinging foot is raised: at every sample with
\* 0 < t < 1 its commanded z is higher (less negative) than the base stance
\* z, at t = 0.5 it is base z + lift_height, and at t = 0 and t = 1 it is the
\* base z.
C32_SwingFootRaised ==
    SwingSampled =>
        \A k \in 1..Len(sample) :
            sample[k].role = "swing" =>
                LET base_z == base_positions[sample[k].leg][3]
                IN  /\ SwingIndex \in {0, SwingPoints} => sample[k].z = base_z
                    /\ (0 < SwingIndex /\ SwingIndex < SwingPoints) => sample[k].z > base_z
                    /\ 2 * SwingIndex = SwingPoints => sample[k].z = base_z + SwingLift

WaveOrBipedal == engine \in {"wave", "bipedal"}

\* the y every leg is given in the loop iteration s equals the offsets y
TargetsAt(s, y) == \A l \in Legs : EventOf(s, l).y = y[l]

\* C33: in the wave and bipedal gaits no phase starts with a jump.  The last
\* sample of a swing or stance-shift phase targets, for every leg, the
\* tracked offset the phase leaves behind; between the phases, and from one
\* cycle to the next, the tracked offsets do not change; and the first
\* sample of the next phase targets, for every leg, these tracked offsets.
C33_PhaseStartsWhereLastEnded ==
    /\ []((WaveOrBipedal /\ (SwingEnded \/ ShiftEnded)) => TargetsAt(sample, TrackedY))
    /\ [][ /\ (WaveOrBipedal /\ pc.fn \in {"idle", "check"}) =>
                  \/ TrackedY' = TrackedY
                  \/ cycles = 0 /\ TrackedY' = BaseY
           /\ (WaveOrBipedal /\ pc.fn \in {"swing", "stance"} /\ pc.i = 0 /\ pc' # pc) =>
                  TargetsAt(sample', TrackedY) ]_vars

\* the first sample of the first swing of a second cycle, with a leg off base
C33_Witness ==
    /\ WaveOrBipedal /\ cycles = 2
    /\ pc.fn = "swing" /\ pc.step = 0 /\ pc.i = 1 /\ InPhase("swing")
    /\ \E l \in Legs : EventOf(sample, l).y # BaseY[l]
    /\ TargetsAt(sample, TrackedY)

\* C34: the two ankle formulas of computeLegIK are distinct and mirrored: for
\* the angle gamma of a successful call, the ankle angle of a leg with
\* invert_knee differs from the ankle angle of a leg without, and the call
\* returns the one of its leg.
C34_AnkleFormulasDistinct ==
    (kin.fn = "computeLegIK" /\ kin.ret) =>
        LET gamma == acosf(kin.acos_args[1])
        IN  /\ kin.q[3] = AnkleAngle(leg_origins[kin.leg_number].invert_knee, gamma)
            /\ AnkleAngle(TRUE, gamma) # AnkleAngle(FALSE, gamma)
\* the configured duration of the phase the last executed sample belongs to
PhaseDurationMs ==
    IF LastPhase.phase = "stance" THEN tripod_config.stance_duration_ms
    ELSE tripod_config.swing_duration_ms

TripodTimed == engine = "tripod" /\ pc.fn # "idle" /\ Len(phase_log) > 0

\* C35: in the tripod swing and stance phases every busy-wait between two
\* samples is over no later than (configured phase duration + 1) ticks after
\* the phase read its start tick, also when tick * 1000 wraps during the phase
C35_BusyWaitBounded ==
    TripodTimed => timer.tick - timer.start <= PhaseDurationMs + 1

\* the busy-wait of a phase run with the default configuration across the
\* wrap of tick * 1000 is still spinning after (duration + 1) ticks
C35_WrapKeepsWaiting ==
    ~(/\ TripodTimed
      /\ tripod_config = DefaultTripodConfig
      /\ timer.waiting
      /\ timer.tick - timer.start > PhaseDurationMs + 1)

\* the cycle that is ending ran with the step_length of the cycle before it
SameStepAsBefore == cycles >= 2 /\ cycle_steps.prev = cycle_steps.cur

CycleEnded == WaveOrBipedal /\ pc.fn = "check"

\* C36: with a constant step_length the wave and bipedal gaits are periodic
\* from the first cycle on.  cycle_start_y of a cycle after the first is the
\* tracked offsets the cycle before it ended with, and a cycle run with the
\* step_length of the cycle before it ends with exactly these offsets.
C36_PeriodicFromFirstCycle ==
    /\ []((CycleEnded /\ SameStepAsBefore) => TrackedY = cycle_start_y)
    /\ [][(WaveOrBipedal /\ cycles >= 1 /\ pc.fn = "idle" /\ pc'.fn # "idle")
             => cycle_start_y' = TrackedY]_vars

C36_Witness ==
    /\ CycleEnded
    /\ SameStepAsBefore
    /\ TrackedY = cycle_start_y
    /\ TrackedY # BaseY

\* a swing or stance-shift phase of the wave or bipedal gait is about to start, or
\* the last phase of the cycle has ended
PhaseBoundary ==
    /\ WaveOrBipedal
    /\ pc.fn = "check" \/ (pc.fn \in {"swing", "stance"} /\ pc.i = 0)

\* the cycles up to the current one ran with one step_length
ConstantStep == cycles = 1 \/ cycle_steps.prev = cycle_steps.cur

WithinStep(y, L) == \A l \in Legs : BaseY[l] - L <= y[l] /\ y[l] <= BaseY[l] + L

\* C37: in the wave and bipedal gaits, at every phase boundary of consecutive
\* cycles run with one step_length L > 0, the tracked offset of every leg lies
\* in [base_y - L, base_y + L] of that leg.
C37_OffsetsWithinStep ==
    (PhaseBoundary /\ ConstantStep /\ cycle_steps.cur > 0)
        => WithinStep(TrackedY, cycle_steps.cur)

C37_Witness ==
    /\ PhaseBoundary
    /\ SameStepAsBefore
    /\ cycle_steps.cur > 0
    /\ \E l \in Legs : TrackedY[l] = BaseY[l] - cycle_steps.cur
    /\ \E l \in Legs : TrackedY[l] # BaseY[l] - cycle_steps.cur
    /\ WithinStep(TrackedY, cycle_steps.cur)

\* the step of the cycle in which leg l swings
SwingStepOf(l) ==
    IF engine = "wave" THEN CHOOSE st \in 0..5 : WaveSwingLeg(st) = l
    ELSE CHOOSE st \in 0..2 : l \in {BipedalSwingLegs(st)[1], BipedalSwingLegs(st)[2]}

\* the stance shifts of the current cycle that are complete
ShiftsDone == IF pc.fn = "check" THEN pc.step + 1 ELSE pc.step

\* the swing of leg l in the current cycle is complete
SwingDone(l) == pc.step > SwingStepOf(l) \/ (pc.step = SwingStepOf(l) /\ pc.fn # "swing")

\* the tracked offsets as a function of the offsets at the start of the cycle,
\* the step_length and the position in the cycle
OffsetsFromStep ==
    LET L == IF engine = "wave" THEN wave_config.step_length
             ELSE bipedal_config.step_length
        shift == IF engine = "wave" THEN WaveStanceShift ELSE BipedalStanceShift
    IN  [l \in Legs |->
            IF SwingDone(l) THEN BaseY[l] - L + shift * (ShiftsDone - SwingStepOf(l))
            ELSE cycle_start_y[l] + shift * ShiftsDone]

\* a wave or bipedal cycle is executing
InCycle == WaveOrBipedal /\ pc.fn # "idle"

C38_WitnessReturn ==
    /\ WaveOrBipedal
    /\ pc.fn = "idle"
    /\ cycles >= 1
    /\ ik_failed
    /\ ret = "true"

\* <<x, y>> the moving leg l of the phase of the last sample is led to
PhaseEndXY(l) ==
    IF engine = "tripod"
    THEN IF LastPhase.phase = "swing"
         THEN <<calculateTargetPosition(l, pc.direction)[1],
                calculateTargetPosition(l, pc.direction)[2]>>
         ELSE TripodStanceEnd(l)
    ELSE IF LastPhase.phase = "swing"
         THEN <<base_positions[l][1],
                IF engine = "wave" THEN WaveSwingEndY(l, pc.direction)
                ELSE BipedalSwingEndY(l, pc.direction)>>
         ELSE <<base_positions[l][1],
                stance_start_y[l]
                   + (IF engine = "wave" THEN WaveStanceShift ELSE BipedalStanceShift)>>

Between(a, v, b) == (a <= v /\ v <= b) \/ (b <= v /\ v <= a)

\* a sample of some phase of the running cycle has been executed
Sampled == pc.fn # "idle" /\ Len(phase_log) > 0 /\ sample # << >>

\* the last sample of a phase has been executed, the next phase has not begun
PhaseEnded == Sampled /\ pc.fn # LastPhase.phase

\* the step executes a sample after the first of the phase the last sample belongs to
NextSampleOfPhase ==
    /\ Sampled
    /\ pc.fn = LastPhase.phase
    /\ pc.i >= 1
    /\ pc' # pc
    /\ sample' # << >>

\* C39: within a swing or stance phase the x and y commanded to a moving leg
\* never leave the closed interval between the value of the first sample and
\* the end value of the phase, every sample lies between the sample before it
\* and the end value (monotone, no overshoot), and the last sample is the end
\* value.
C39_MonotoneNoOvershoot ==
    /\ [](Sampled => \A l \in LastPhase.legs :
             /\ Between(EventOf(phase_first, l).x, EventOf(sample, l).x, PhaseEndXY(l)[1])
             /\ Between(EventOf(phase_first, l).y, EventOf(sample, l).y, PhaseEndXY(l)[2]))
    /\ [](PhaseEnded => \A l \in LastPhase.legs :
             <<EventOf(sample, l).x, EventOf(sample, l).y>> = PhaseEndXY(l))
    /\ [][NextSampleOfPhase => \A l \in LastPhase.legs :
             /\ Between(EventOf(sample, l).x, EventOf(sample, l).x', PhaseEndXY(l)[1])
             /\ Between(EventOf(sample, l).y, EventOf(sample, l).y', PhaseEndXY(l)[2])]_vars

\* the third sample or a later one of a phase, strictly between start and end
C39_Witness ==
    /\ Sampled
    /\ pc.fn = LastPhase.phase
    /\ pc.i >= 3
    /\ \E l \in LastPhase.legs :
          /\ EventOf(sample, l).y # EventOf(phase_first, l).y
          /\ EventOf(sample, l).y # PhaseEndXY(l)[2]
          /\ Between(EventOf(phase_first, l).y, EventOf(sample, l).y, PhaseEndXY(l)[2])

====
